---- MODULE Spec2Model ----
(***************************************************************************)
(* The dice-notation language of code/base/Parsing.py: DiceLexer turns a   *)
(* text into tokens, DiceParser (an LALR(1) parser driven by the           *)
(* precedence table) evaluates every production as it reduces and logs     *)
(* each step in step_log.  Texts, tokens' lexemes and trace entries are    *)
(* strings; numbers are Python ints or floats, kept as exact fractions.    *)
(***************************************************************************)
EXTENDS Integers, Sequences, FiniteSets, TLC

VARIABLES
    text,            \* the text handed to lexer.tokenize for the running call
    tokens,          \* what the token generator has yet to yield
    statestack,      \* parse(): stack of parser states
    symstack,        \* parse(): stack of grammar symbols with their values
    lookahead,       \* parse(): current lookahead symbol (NoToken if none)
    lookaheadstack,  \* parse(): tokens set aside while the error symbol is tried
    errorcount,      \* parse(): shifts left before a new error is reported
    step_log,        \* DiceParser.step_log
    pc,              \* "parsing", "returned" or "raised"; "idle": no call runs
    result,          \* what parse() gave back to its caller
    evaluations,     \* calls of parse() made on this DiceParser so far
    start_log,       \* history: step_log as it was when the running call began
    appended,        \* history: entries appended to step_log by the running call
    statements,      \* history: reductions of `statement` in the running call
    discarded,       \* history: tokens and symbols error recovery threw away
    rolls,           \* history: one record per roll production of the running call
    reduced,         \* history: one record per production the running call reduced
    command,         \* the command whose handler runs: "roll", "r" or "" for none
    invoked,         \* per command received: its text, status and outcome
    outbox,          \* ctx.send: messages handed over, their handlers awaiting
    sent,            \* the messages the channel shows, in order of arrival
    lists,           \* the list objects step_log has referred to, by identity
    log_id,          \* the identity of the list self.step_log refers to now
    handed,          \* history: the lists parse() returned, as they were then
    draws,           \* history: calls of random.randint in the running call
    cookie_available,           \* CookieHuntCog.cookie_available
    cookie_prepared_timestamp,  \* CookieHuntCog.cookie_prepared_timestamp
    cookie_drop_delay_hours,    \* CookieHuntCog.cookie_drop_delay_hours
    cookie_drop_delay_minutes,  \* CookieHuntCog.cookie_drop_delay_minutes
    cookie_type,     \* CookieHuntCog.cookie_type
    UserTable,       \* the discord ids that have a row in UserTable
    CookieTable,     \* Cookie_Count of every user that has a row in CookieTable
    gimmes,          \* per gimme command received: its author and handler
    cookie_monsters, \* the members that hold the role of the winner
    drops,           \* history: drop messages passed to channel.send
    last_check,      \* history: how _check_to_send_cookie ended last
    frames,          \* DatabaseMethod.run: the calls that have not returned
    sessions,        \* per session made by SessionObject(): what was done with it
    finished         \* history: the outermost calls that came to an end

\* the state of the DiceRollerCog commands around the parser
cog_vars == <<command, invoked, outbox, sent>>

\* the state of CookieHuntCog, the tables it works on and its handlers
cookie_vars == <<cookie_available, cookie_prepared_timestamp,
                 cookie_drop_delay_hours, cookie_drop_delay_minutes,
                 cookie_type, UserTable, CookieTable, gimmes,
                 cookie_monsters, drops, last_check>>

\* the calls of the data layer and their sessions
db_vars == <<frames, sessions, finished>>

\* what lies outside the parser
bot_vars == <<cog_vars, cookie_vars, db_vars>>

\* what only some steps of the parser touch
kept_vars == <<lists, log_id, handed, draws>>

vars == <<text, tokens, statestack, symstack, lookahead, lookaheadstack,
          errorcount, step_log, pc, result, evaluations, start_log, appended,
          statements, discarded, rolls, reduced, command, invoked, outbox, sent,
          lists, log_id, handed, draws, cookie_vars, db_vars>>

----------------------------------------------------------------------------
(* Bounds of the model.                                                    *)

\* longest text of the exhaustive family of inputs
MaxLen == 3

\* calls of parse() on one DiceParser instance
MaxEvaluations == 2

\* gimme commands received
MaxGimmes == 2

\* outermost calls of the data layer
MaxCalls == 2

\* calls of the data layer one inside the other, and calls made inside one
\* outermost call
MaxDepth == 3

----------------------------------------------------------------------------
(* DiceLexer                                                               *)

ignore == {" ", "\t"}

Digit == {"0", "1", "2", "3", "4", "5", "6", "7", "8", "9"}

Literal == {"+", "-", "*", "/", "(", ")", "d"}

LiteralType(c) ==
    CASE c = "+" -> "PLUS"
      [] c = "-" -> "MINUS"
      [] c = "*" -> "TIMES"
      [] c = "/" -> "DIVIDE"
      [] c = "(" -> "LEFT_PARENTHESES"
      [] c = ")" -> "RIGHT_PARENTHESES"
      [] c = "d" -> "DIE_ROLL"

CharAt(s, i) == SubSeq(s, i, i)

\* a match that stops after one character
RunEnd_one(s, i, class) == i + 1

\* first index after the maximal run of characters of `class` that starts at i
RECURSIVE RunEnd(_, _, _)
RunEnd(s, i, class) ==
    IF i <= Len(s) /\ CharAt(s, i) \in class THEN RunEnd(s, i + 1, class) ELSE i

Token(type, value) == [type |-> type, value |-> value]

\* a tokenizer that stops at the first character it does not recognize
RECURSIVE tokenize_abort(_, _)
tokenize_abort(s, index) ==
    IF index > Len(s) THEN <<>>
    ELSE LET c == CharAt(s, index) IN
         IF c \in ignore THEN tokenize_abort(s, index + 1)
         ELSE IF c \in Digit THEN
             LET end == RunEnd(s, index, Digit) IN
             <<Token("NUMBER", SubSeq(s, index, end - 1))>>
             \o tokenize_abort(s, end)
         ELSE IF c \in Literal THEN
             <<Token(LiteralType(c), c)>> \o tokenize_abort(s, index + 1)
         ELSE IF c = "\n" THEN tokenize_abort(s, RunEnd(s, index, {"\n"}))
         ELSE <<>>

\* Lexer.tokenize from position `index`: ignored characters first, then the
\* token patterns, then ignore_newline, and error() for anything else
RECURSIVE tokenize(_, _)
tokenize(s, index) ==
    IF index > Len(s) THEN <<>>
    ELSE LET c == CharAt(s, index) IN
         IF c \in ignore THEN tokenize(s, index + 1)
         ELSE IF c \in Digit THEN
             LET end == RunEnd(s, index, Digit) IN
             <<Token("NUMBER", SubSeq(s, index, end - 1))>> \o tokenize(s, end)
         ELSE IF c \in Literal THEN
             <<Token(LiteralType(c), c)>> \o tokenize(s, index + 1)
         ELSE IF c = "\n" THEN tokenize(s, RunEnd(s, index, {"\n"}))
         ELSE tokenize(s, index + 1)

----------------------------------------------------------------------------
(* Python numbers: n/d in lowest terms, f = "is a float", z = "is -0.0"    *)

RECURSIVE Gcd(_, _)
Gcd(a, b) == IF b = 0 THEN a ELSE Gcd(b, a % b)

Abs(i) == IF i < 0 THEN -i ELSE i

PyInt(i) == [n |-> i, d |-> 1, f |-> FALSE, z |-> FALSE]

PyFloat(num, den, negzero) ==
    LET g == Gcd(Abs(num), den) IN
    [n |-> num \div g, d |-> den \div g, f |-> TRUE, z |-> (num = 0) /\ negzero]

IsNegative(v) == v.n < 0 \/ v.z

DigitValue(c) ==
    CASE c = "0" -> 0 [] c = "1" -> 1 [] c = "2" -> 2 [] c = "3" -> 3
      [] c = "4" -> 4 [] c = "5" -> 5 [] c = "6" -> 6 [] c = "7" -> 7
      [] c = "8" -> 8 [] c = "9" -> 9

\* int(lexeme)
RECURSIVE int(_)
int(s) ==
    IF s = "" THEN 0
    ELSE 10 * int(SubSeq(s, 1, Len(s) - 1)) + DigitValue(CharAt(s, Len(s)))

\* float(x)
float(v) == [v EXCEPT !.f = TRUE]

\* a float that is never taken for a whole number
is_integer_never(v) == FALSE

\* x.is_integer()
is_integer(v) == v.d = 1

\* math.ceil(x), an int
ceil(v) == -((-v.n) \div v.d)

add(x, y) ==
    IF ~x.f /\ ~y.f THEN PyInt(x.n + y.n)
    ELSE PyFloat(x.n * y.d + y.n * x.d, x.d * y.d, x.z /\ y.z)

sub(x, y) ==
    IF ~x.f /\ ~y.f THEN PyInt(x.n - y.n)
    ELSE PyFloat(x.n * y.d - y.n * x.d, x.d * y.d, x.z /\ y.n = 0 /\ ~y.z)

mul(x, y) ==
    IF ~x.f /\ ~y.f THEN PyInt(x.n * y.n)
    ELSE PyFloat(x.n * y.n, x.d * y.d, IsNegative(x) # IsNegative(y))

\* x / y for y # 0: true division, always a float
div(x, y) ==
    LET s == IF y.n < 0 THEN -1 ELSE 1 IN
    PyFloat(s * x.n * y.d, s * y.n * x.d, IsNegative(x) # IsNegative(y))

neg(x) ==
    IF ~x.f THEN PyInt(-x.n) ELSE PyFloat(-x.n, x.d, x.n = 0 /\ ~x.z)

\* decimal digits of r/d after the point (d has no prime factor but 2 and 5)
RECURSIVE Fraction(_, _)
Fraction(r, d) ==
    IF r = 0 THEN ""
    ELSE ToString((10 * r) \div d) \o Fraction((10 * r) % d, d)

\* f'{x}': str() of an int or of a float
str(v) ==
    IF ~v.f THEN ToString(v.n)
    ELSE (IF IsNegative(v) THEN "-" ELSE "")
         \o ToString(Abs(v.n) \div v.d) \o "."
         \o (IF v.d = 1 THEN "0" ELSE Fraction(Abs(v.n) % v.d, v.d))

----------------------------------------------------------------------------
(* DiceParser: grammar, precedence and the LALR(1) tables built from them  *)

BinaryOperator == {"DIE_ROLL", "PLUS", "MINUS", "TIMES", "DIVIDE"}

\* terminals that may follow an expr somewhere in the grammar
FollowExpr == BinaryOperator \cup {"RIGHT_PARENTHESES", "$end"}

\* terminals that may begin an expr
FirstExpr == {"NUMBER", "MINUS", "LEFT_PARENTHESES"}

\* precedence with the roll operator binding least tightly
precedence_roll_lowest(tok) ==
    CASE tok \in {"PLUS", "MINUS"}   -> [assoc |-> "left",  level |-> 1]
      [] tok \in {"TIMES", "DIVIDE"} -> [assoc |-> "left",  level |-> 2]
      [] tok = "UNARY_MINUS"         -> [assoc |-> "right", level |-> 3]
      [] OTHER                       -> [assoc |-> "right", level |-> 0]

\* precedence with UNARY_MINUS listed first, below + and -
precedence_unary_lowest(tok) ==
    CASE tok \in {"PLUS", "MINUS"}   -> [assoc |-> "left",  level |-> 2]
      [] tok \in {"TIMES", "DIVIDE"} -> [assoc |-> "left",  level |-> 3]
      [] tok = "UNARY_MINUS"         -> [assoc |-> "right", level |-> 1]
      [] tok = "DIE_ROLL"            -> [assoc |-> "left",  level |-> 4]
      [] OTHER                       -> [assoc |-> "right", level |-> 0]

\* precedence with UNARY_MINUS listed last, above the roll operator
precedence_unary_highest(tok) ==
    CASE tok \in {"PLUS", "MINUS"}   -> [assoc |-> "left",  level |-> 1]
      [] tok \in {"TIMES", "DIVIDE"} -> [assoc |-> "left",  level |-> 2]
      [] tok = "DIE_ROLL"            -> [assoc |-> "left",  level |-> 3]
      [] tok = "UNARY_MINUS"         -> [assoc |-> "right", level |-> 4]
      [] OTHER                       -> [assoc |-> "right", level |-> 0]

\* DiceParser.precedence, lowest level first; a token that is not listed
\* has ('right', 0)
precedence(tok) ==
    CASE tok \in {"PLUS", "MINUS"}   -> [assoc |-> "left",  level |-> 1]
      [] tok \in {"TIMES", "DIVIDE"} -> [assoc |-> "left",  level |-> 2]
      [] tok = "UNARY_MINUS"         -> [assoc |-> "right", level |-> 3]
      [] tok = "DIE_ROLL"            -> [assoc |-> "left",  level |-> 4]
      [] OTHER                       -> [assoc |-> "right", level |-> 0]

\* the rule of each binary operator, named after its handler
BinaryRule(op) ==
    CASE op = "DIE_ROLL" -> "roll"
      [] op = "PLUS"     -> "plus"
      [] op = "MINUS"    -> "minus"
      [] op = "TIMES"    -> "times"
      [] op = "DIVIDE"   -> "divide"

\* number of right-hand-side symbols of each rule
RuleLength(rule) ==
    CASE rule = "statement"   -> 1
      [] rule = "number"      -> 1
      [] rule = "unary_minus" -> 2
      [] OTHER                -> 3

RuleName(rule) == IF rule = "statement" THEN "statement" ELSE "expr"

Shift(to)    == [kind |-> "shift",  arg |-> to]
Reduce(rule) == [kind |-> "reduce", arg |-> rule]
Accept       == [kind |-> "accept", arg |-> ""]
NoAction     == [kind |-> "none",   arg |-> ""]

\* Resolve as if every operator were declared 'right'
Resolve_right(rule, ruletok, la, to) ==
    IF precedence(la).level < precedence(ruletok).level
    THEN Reduce(rule)
    ELSE Shift(to)

\* a shift/reduce conflict between the rule whose precedence is that of
\* `ruletok` and the lookahead `la`: reduce when the lookahead binds less
\* tightly, or as tightly and the rule is left-associative
Resolve(rule, ruletok, la, to) ==
    LET r == precedence(ruletok)
        s == precedence(la)
    IN  IF s.level < r.level \/ (s.level = r.level /\ r.assoc = "left")
        THEN Reduce(rule)
        ELSE IF s.level = r.level /\ r.assoc = "nonassoc" THEN NoAction
        ELSE Shift(to)

\* The parser states, each named by the part of a rule it has seen:
\*   ""                                       nothing yet
\*   "statement"                              S' -> statement .
\*   "expr"                                   statement -> expr .
\*   "NUMBER", "MINUS", "LEFT_PARENTHESES"    after that token
\*   "MINUS expr", "LEFT_PARENTHESES expr",
\*   "LEFT_PARENTHESES expr RIGHT_PARENTHESES"
\*   "expr OP", "expr OP expr"                for each binary operator OP
AwaitsExpr ==
    {"", "MINUS", "LEFT_PARENTHESES"} \cup {"expr " \o op : op \in BinaryOperator}

\* the operator of a state "expr OP expr"
OperatorOf(state) ==
    CHOOSE op \in BinaryOperator : state = "expr " \o op \o " expr"

IsBinaryDone(state) ==
    \E op \in BinaryOperator : state = "expr " \o op \o " expr"

\* lr_action[state].get(la)
action(state, la) ==
    IF state \in AwaitsExpr THEN
        IF la \in FirstExpr THEN Shift(la) ELSE NoAction
    ELSE IF state = "statement" THEN
        IF la = "$end" THEN Accept ELSE NoAction
    ELSE IF state = "expr" THEN
        IF la = "$end" THEN Reduce("statement")
        ELSE IF la \in BinaryOperator THEN Shift("expr " \o la)
        ELSE NoAction
    ELSE IF state = "NUMBER" THEN
        IF la \in FollowExpr THEN Reduce("number") ELSE NoAction
    ELSE IF state = "LEFT_PARENTHESES expr" THEN
        IF la = "RIGHT_PARENTHESES"
        THEN Shift("LEFT_PARENTHESES expr RIGHT_PARENTHESES")
        ELSE IF la \in BinaryOperator THEN Shift("expr " \o la)
        ELSE NoAction
    ELSE IF state = "LEFT_PARENTHESES expr RIGHT_PARENTHESES" THEN
        IF la \in FollowExpr THEN Reduce("parentheses") ELSE NoAction
    ELSE IF state = "MINUS expr" THEN
        IF la \in BinaryOperator
        THEN Resolve("unary_minus", "UNARY_MINUS", la, "expr " \o la)
        ELSE IF la \in FollowExpr THEN Reduce("unary_minus")
        ELSE NoAction
    ELSE IF IsBinaryDone(state) THEN
        LET op == OperatorOf(state) IN
        IF la \in BinaryOperator
        THEN Resolve(BinaryRule(op), op, la, "expr " \o la)
        ELSE IF la \in FollowExpr THEN Reduce(BinaryRule(op))
        ELSE NoAction
    ELSE NoAction

\* lr_goto[state][name]
goto(state, name) ==
    IF name = "statement" THEN "statement"
    ELSE IF state = "" THEN "expr"
    ELSE state \o " expr"

----------------------------------------------------------------------------
(* The inputs of the model                                                 *)

\* every text of at most n characters of `alphabet`
RECURSIVE Texts(_, _)
Texts(alphabet, n) ==
    IF n = 0 THEN {""}
    ELSE LET shorter == Texts(alphabet, n - 1) IN
         shorter \cup {s \o c : s \in shorter, c \in alphabet}

ShortAlphabet == {"0", "1", "+", "-", "*", "(", ")", "d", " ", "@"}

OperandDigit == {"0", "1", "2"}

Operator == {"d", "+", "-", "*", "/"}

\* a/bdc divides by the total of a roll, which may be 3: left out, so that
\* every float of the model is a binary fraction, exact in Python as well
OperatorPair == {q \in Operator \X Operator : ~(q[1] = "/" /\ q[2] = "d")}

\* two operators over three operands, bare, bracketed or negated
Formulas ==
    {a \o q[1] \o b \o q[2] \o c :
        a \in OperandDigit, b \in OperandDigit, c \in OperandDigit,
        q \in OperatorPair}
    \cup {"(" \o a \o o \o b \o ")" \o p \o c :
        a \in OperandDigit, b \in OperandDigit, c \in OperandDigit,
        o \in Operator, p \in Operator}
    \cup {"-" \o a \o o \o b :
        a \in OperandDigit, b \in OperandDigit, o \in Operator}

Examples ==
    {"2+3d1", "(2-5)d6", "-3d6", "3d6", "0d0", "3 3 3", "1+2)3", "(1+2",
     "2@+3", "2*(3+4)", "(1+2)*3", "1D1", "1\t+\n1", "2d-2", "(1/2)d(3/2)",
     "1/0", "0/0", "3/(2-2)", "2+3", "1+2*3", "(1/2-2)d2", "(4/2)d1",
     "(1-2)d-2", "(1+2)*(3+4)", "1d2+2d1"}

Inputs == Texts(ShortAlphabet, MaxLen) \cup Formulas \cup Examples

\* texts of the calls that follow the first one on the same instance
FollowUps == {"4", "1+2", "2d2", "+1", "(1", "1-1)", "2*(3+4)"}

----------------------------------------------------------------------------
(* Parser.parse                                                            *)

NoToken  == Token("None", "")
EndToken == Token("$end", "")

NoResult == [kind |-> "pending", trace |-> <<>>, value |-> PyInt(0)]

\* sly reports again only after this many tokens were shifted
ERROR_COUNT == 3

Last(seq) == seq[Len(seq)]
DropLast(seq, k) == SubSeq(seq, 1, Len(seq) - k)

\* "Get the next symbol on the input": the lookahead in hand, else the top of
\* the lookahead stack, else the next token, else $end
Fetching == lookahead.type = "None"

LA ==
    IF ~Fetching THEN lookahead
    ELSE IF lookaheadstack # <<>> THEN Last(lookaheadstack)
    ELSE IF tokens # <<>> THEN Head(tokens)
    ELSE EndToken

RestOfStack ==
    IF Fetching /\ lookaheadstack # <<>> THEN DropLast(lookaheadstack, 1)
    ELSE lookaheadstack

RestOfTokens ==
    IF Fetching /\ lookaheadstack = <<>> /\ tokens # <<>> THEN Tail(tokens)
    ELSE tokens

\* t = actions[self.state].get(ltype)
T == action(Last(statestack), LA.type)

Parsing == pc = "parsing"

Reducing(rule) == Parsing /\ T = Reduce(rule)

\* a slice that numbers the symbols of a three-symbol rule from the right
Slice_mirrored(rule, k) ==
    symstack[Len(symstack) - (IF RuleLength(rule) = 3 THEN k - 1
                              ELSE RuleLength(rule) - k)].value

\* p.expr0, p.expr1, p.expr, p.NUMBER: the values of the rule's symbols
Slice(rule, k) == symstack[Len(symstack) - RuleLength(rule) + k].value

\* self.step_log.clear(): the list is emptied where it stands
ResetLog_cleared ==
    [lists |-> [lists EXCEPT ![log_id] = <<>>], log_id |-> log_id]

\* self.step_log = []: the attribute refers to a new list
ResetLog == [lists |-> Append(lists, <<>>), log_id |-> Len(lists) + 1]

\* "reduce a symbol on the stack": the handler gave `value` and appended
\* `entries` to step_log
ReduceWith(rule, value, log) ==
    LET states == DropLast(statestack, RuleLength(rule)) IN
    /\ symstack' = Append(DropLast(symstack, RuleLength(rule)),
                          [type |-> RuleName(rule), value |-> value])
    /\ statestack' = Append(states, goto(Last(states), RuleName(rule)))
    /\ step_log' = log
    /\ lookahead' = LA
    /\ tokens' = RestOfTokens
    /\ lookaheadstack' = RestOfStack
    /\ IF rule = "statement"
       THEN /\ lists' = ResetLog.lists
            /\ log_id' = ResetLog.log_id
       ELSE /\ lists' = [lists EXCEPT ![log_id] = log]
            /\ log_id' = log_id
    /\ UNCHANGED <<text, errorcount, pc, result, evaluations, start_log,
                   discarded, handed>>
    /\ UNCHANGED bot_vars

\* history of a reduction: the rule, the values of its symbols (p[0], p[1],
\* ...), what the handler returned and logged, and step_log around it
Reduction(rule, value, entries, log) ==
    [rule |-> rule,
     args |-> [k \in 1 .. RuleLength(rule) |-> Slice(rule, k)],
     value |-> value,
     entries |-> entries,
     before |-> step_log,
     after |-> log]

\* a handler that puts its entries in front of the log
Produce_prepend(rule, value, entries) ==
    /\ ReduceWith(rule, value, entries \o step_log)
    /\ appended' = entries \o appended
    /\ reduced' = Append(reduced,
                         Reduction(rule, value, entries, entries \o step_log))
    /\ UNCHANGED <<statements, rolls, draws>>

\* a handler that appends `entries` and returns `value`
Produce(rule, value, entries) ==
    /\ ReduceWith(rule, value, step_log \o entries)
    /\ appended' = appended \o entries
    /\ reduced' = Append(reduced,
                         Reduction(rule, value, entries, step_log \o entries))
    /\ UNCHANGED <<statements, rolls, draws>>

----------------------------------------------------------------------------
(* The productions of DiceParser                                           *)

\* stands for the die emoji (U+1F3B2) that precedes every outcome
DieGlyph == "#"

\* random.randint(a, b)
randint(a, b) == a .. b

\* dice whose faces start at zero
DieValues_from_zero(die_max_value) ==
    IF die_max_value > 0 THEN randint(0, die_max_value)
    ELSE IF die_max_value < 0 THEN randint(die_max_value, 0)
    ELSE {0}

\* the outcomes one die can give: "roll between 1 and max value", "roll
\* between max value, and -1", or the zero of a d0
DieValues(die_max_value) ==
    IF die_max_value > 0 THEN randint(1, die_max_value)
    ELSE IF die_max_value < 0 THEN randint(die_max_value, -1)
    ELSE {0}

RECURSIVE Sum(_)
Sum(seq) == IF seq = <<>> THEN 0 ELSE Head(seq) + Sum(Tail(seq))

\* the second loop of the roll: the glyph, the value and a space per die
RECURSIVE DiceText(_)
DiceText(die_values) ==
    IF die_values = <<>> THEN ""
    ELSE DieGlyph \o ToString(Head(die_values)) \o " "
         \o DiceText(Tail(die_values))

\* step_string[:-1] + ')'
StepString(number_of_dice, die_max_value, roll_total, die_values) ==
    LET step_string ==
            ToString(number_of_dice) \o "d" \o ToString(die_max_value)
            \o "=" \o ToString(roll_total) \o "(" \o DiceText(die_values)
    IN  SubSeq(step_string, 1, Len(step_string) - 1) \o ")"

\* die_min_value once the first loop is over
DieMinValue(number_of_dice, die_max_value) ==
    IF number_of_dice > 0 /\ die_max_value < 0 THEN -1 ELSE 1

Count(seq, v) == Cardinality({i \in DOMAIN seq : seq[i] = v})

\* a ceiling that is logged for every float
CeilLog_always(v) ==
    IF v.f
    THEN <<"ceil(" \o str(v) \o ")=" \o ToString(ceil(v))>>
    ELSE <<>>

\* "log if the ceiling actually impacted the numbers"
CeilLog(v) ==
    IF v.f /\ ~is_integer(v)
    THEN <<"ceil(" \o str(v) \o ")=" \o ToString(ceil(v))>>
    ELSE <<>>

\* a loop that asks random.randint for the outcome of a d0 as well
Draws_always(number_of_dice, die_max_value) == number_of_dice

\* the calls of random.randint of the first loop: one per die, none for a d0
Draws(number_of_dice, die_max_value) ==
    IF die_max_value # 0 THEN number_of_dice ELSE 0

\* an inversion that is not logged
InversionLog_silent(invert_result, roll_total) == <<>>

\* if invert_result: the inversion is logged after the roll
InversionLog(invert_result, roll_total) ==
    IF invert_result
    THEN <<"-(" \o ToString(roll_total) \o ")=" \o ToString(-roll_total)>>
    ELSE <<>>

\* @_('expr DIE_ROLL expr')
Reduce_roll ==
    /\ Reducing("roll")
    /\ LET expr0 == Slice("roll", 1)
           expr1 == Slice("roll", 3)
           die_max_value == ceil(expr1)
           invert_result == ceil(expr0) < 0
           number_of_dice == Abs(ceil(expr0))
       IN  \E die_values \in [1 .. number_of_dice -> DieValues(die_max_value)] :
           LET roll_total == Sum(die_values)
               step_string == StepString(number_of_dice, die_max_value,
                                         roll_total, die_values)
               die_min_value == DieMinValue(number_of_dice, die_max_value)
               returned == IF invert_result THEN -roll_total ELSE roll_total
               entries ==
                   CeilLog(expr0) \o CeilLog(expr1) \o <<step_string>>
                   \o InversionLog(invert_result, roll_total)
           IN  /\ ReduceWith("roll", PyInt(returned), step_log \o entries)
               /\ appended' = appended \o entries
               /\ rolls' = Append(rolls,
                      [expr0 |-> expr0,
                       expr1 |-> expr1,
                       number_of_dice |-> number_of_dice,
                       die_max_value |-> die_max_value,
                       invert_result |-> invert_result,
                       die_values |-> die_values,
                       roll_total |-> roll_total,
                       returned |-> returned,
                       step_string |-> step_string,
                       entries |-> entries,
                       crit_success_count |-> Count(die_values, die_max_value),
                       crit_fail_count |->
                           IF die_min_value = die_max_value THEN 0
                           ELSE Count(die_values, die_min_value)])
               /\ reduced' = Append(reduced,
                      Reduction("roll", PyInt(returned), entries,
                                step_log \o entries))
               /\ draws' = draws + Draws(number_of_dice, die_max_value)
               /\ UNCHANGED statements

\* an arithmetic step that is logged twice
BinaryEntry_twice(expr0, sign, expr1, value) ==
    <<str(expr0) \o sign \o str(expr1) \o "=" \o str(value),
      str(expr0) \o sign \o str(expr1) \o "=" \o str(value)>>

\* f'{p.expr0}+{p.expr1}={result}' and its like
BinaryEntry(expr0, sign, expr1, value) ==
    <<str(expr0) \o sign \o str(expr1) \o "=" \o str(value)>>

\* @_('expr PLUS expr')
Reduce_plus ==
    /\ Reducing("plus")
    /\ LET expr0 == Slice("plus", 1)
           expr1 == Slice("plus", 3)
       IN  Produce("plus", add(expr0, expr1),
                   BinaryEntry(expr0, "+", expr1, add(expr0, expr1)))

\* @_('expr MINUS expr')
Reduce_minus ==
    /\ Reducing("minus")
    /\ LET expr0 == Slice("minus", 1)
           expr1 == Slice("minus", 3)
       IN  Produce("minus", sub(expr0, expr1),
                   BinaryEntry(expr0, "-", expr1, sub(expr0, expr1)))

\* @_('expr TIMES expr')
Reduce_times ==
    /\ Reducing("times")
    /\ LET expr0 == Slice("times", 1)
           expr1 == Slice("times", 3)
       IN  Produce("times", mul(expr0, expr1),
                   BinaryEntry(expr0, "*", expr1, mul(expr0, expr1)))

\* @_('expr DIVIDE expr'): a zero divisor makes Python raise ZeroDivisionError
\* out of parse() before anything is logged
Reduce_divide ==
    /\ Reducing("divide")
    /\ LET expr0 == Slice("divide", 1)
           expr1 == Slice("divide", 3)
       IN  IF expr1.n = 0
           THEN /\ pc' = "raised"
                /\ result' = [NoResult EXCEPT !.kind = "ZeroDivisionError"]
                /\ lookahead' = LA
                /\ tokens' = RestOfTokens
                /\ lookaheadstack' = RestOfStack
                /\ UNCHANGED <<text, statestack, symstack, errorcount, step_log,
                               evaluations, start_log, appended, statements,
                               discarded, rolls, reduced>>
                /\ UNCHANGED <<bot_vars, kept_vars>>
           ELSE Produce("divide", div(expr0, expr1),
                        BinaryEntry(expr0, "/", expr1, div(expr0, expr1)))

\* @_('MINUS expr %prec UNARY_MINUS')
Reduce_unary_minus ==
    /\ Reducing("unary_minus")
    /\ LET expr == Slice("unary_minus", 2) IN
       Produce("unary_minus", neg(expr),
               <<"-(" \o str(expr) \o ")=" \o str(neg(expr))>>)

\* parentheses that log what they enclose
Reduce_parentheses_logged ==
    /\ Reducing("parentheses")
    /\ LET expr == Slice("parentheses", 2) IN
       Produce("parentheses", expr,
               <<"(" \o str(expr) \o ")=" \o str(expr)>>)

\* @_('LEFT_PARENTHESES expr RIGHT_PARENTHESES')
Reduce_parentheses ==
    /\ Reducing("parentheses")
    /\ Produce("parentheses", Slice("parentheses", 2), <<>>)

\* @_('NUMBER')
Reduce_number ==
    /\ Reducing("number")
    /\ Produce("number", PyInt(int(Slice("number", 1))), <<>>)

\* @_('expr') statement: hand out the log with the value and start a new log
Reduce_statement ==
    /\ Reducing("statement")
    /\ ReduceWith("statement",
                  [trace |-> step_log, value |-> float(Slice("statement", 1)),
                   list |-> log_id],
                  <<>>)
    /\ statements' = statements + 1
    /\ reduced' = Append(reduced,
           Reduction("statement",
                     [trace |-> step_log,
                      value |-> float(Slice("statement", 1))],
                     <<>>, <<>>))
    /\ UNCHANGED <<appended, rolls, draws>>

----------------------------------------------------------------------------
(* The rest of the parse loop (sly's Parser.parse, which DiceParser         *)
(* inherits unchanged: the grammar has no error rule and error() is the    *)
(* default one)                                                            *)

\* "shift a symbol on the stack"
ShiftToken ==
    /\ Parsing
    /\ T.kind = "shift"
    /\ statestack' = Append(statestack, T.arg)
    /\ symstack' = Append(symstack, LA)
    /\ lookahead' = NoToken
    /\ errorcount' = IF errorcount > 0 THEN errorcount - 1 ELSE 0
    /\ tokens' = RestOfTokens
    /\ lookaheadstack' = RestOfStack
    /\ UNCHANGED <<text, step_log, pc, result, evaluations, start_log,
                   appended, statements, discarded, rolls, reduced>>
    /\ UNCHANGED <<bot_vars, kept_vars>>

\* t == 0: parse() returns the value of the symbol on top of the stack
AcceptResult ==
    /\ Parsing
    /\ T.kind = "accept"
    /\ pc' = "returned"
    /\ result' = [kind |-> "pair", trace |-> Last(symstack).value.trace,
                  value |-> Last(symstack).value.value]
    /\ lookahead' = LA
    /\ tokens' = RestOfTokens
    /\ lookaheadstack' = RestOfStack
    /\ UNCHANGED <<text, statestack, symstack, errorcount, step_log,
                   evaluations, start_log, appended, statements, discarded,
                   rolls, reduced>>
    /\ handed' = Append(handed, [list |-> Last(symstack).value.list,
                                 trace |-> Last(symstack).value.trace])
    /\ UNCHANGED <<lists, log_id, draws>>
    /\ UNCHANGED bot_vars

\* t is None.  DiceParser keeps sly's error(), which reports and returns
\* None, so errorok stays False and every pass sets errorcount to ERROR_COUNT.
SyntaxError == Parsing /\ T.kind = "none"

\* the error is at the end of the input: parse() returns None
ErrorAtEnd ==
    /\ SyntaxError
    /\ LA.type = "$end"
    /\ pc' = "returned"
    /\ result' = [NoResult EXCEPT !.kind = "None"]
    /\ errorcount' = ERROR_COUNT
    /\ lookahead' = LA
    /\ tokens' = RestOfTokens
    /\ lookaheadstack' = RestOfStack
    /\ UNCHANGED <<text, statestack, symstack, step_log, evaluations,
                   start_log, appended, statements, discarded, rolls, reduced>>
    /\ UNCHANGED <<bot_vars, kept_vars>>

\* "case 1: the statestack only has 1 entry on it ... The token is discarded
\* and we just keep going"
ErrorDiscard ==
    /\ SyntaxError
    /\ LA.type # "$end"
    /\ Len(statestack) <= 1
    /\ lookahead' = NoToken
    /\ lookaheadstack' = <<>>
    /\ errorcount' = ERROR_COUNT
    /\ tokens' = RestOfTokens
    /\ discarded' = discarded + Len(RestOfStack)
                    + (IF LA.type = "error" THEN 0 ELSE 1)
    /\ UNCHANGED <<text, statestack, symstack, step_log, pc, result,
                   evaluations, start_log, appended, statements, rolls,
                   reduced>>
    /\ UNCHANGED <<bot_vars, kept_vars>>

\* "Create the error symbol for the first time and make it the new lookahead
\* symbol" (or drop the input symbol when error is on top of the stack)
ErrorPush ==
    /\ SyntaxError
    /\ LA.type \notin {"$end", "error"}
    /\ Len(statestack) > 1
    /\ IF Last(symstack).type = "error"
       THEN /\ lookahead' = NoToken
            /\ lookaheadstack' = RestOfStack
            /\ discarded' = discarded + 1
       ELSE /\ lookahead' = Token("error", LA.value)
            /\ lookaheadstack' = Append(RestOfStack, LA)
            /\ UNCHANGED discarded
    /\ errorcount' = ERROR_COUNT
    /\ tokens' = RestOfTokens
    /\ UNCHANGED <<text, statestack, symstack, step_log, pc, result,
                   evaluations, start_log, appended, statements, rolls,
                   reduced>>
    /\ UNCHANGED <<bot_vars, kept_vars>>

\* the error symbol cannot be shifted here: pop a symbol and a state
ErrorPop ==
    /\ SyntaxError
    /\ LA.type = "error"
    /\ Len(statestack) > 1
    /\ symstack' = DropLast(symstack, 1)
    /\ statestack' = DropLast(statestack, 1)
    /\ errorcount' = ERROR_COUNT
    /\ discarded' = discarded + 1
    /\ UNCHANGED <<text, tokens, lookahead, lookaheadstack, step_log, pc,
                   result, evaluations, start_log, appended, statements, rolls,
                   reduced>>
    /\ UNCHANGED <<bot_vars, kept_vars>>

----------------------------------------------------------------------------
(* The bot around the parser, before any command has arrived               *)

\* Python's None, and a value that is set
None == <<>>
Some(v) == <<v>>

\* CookieHuntCog.__init__ and cog_load; the tables are empty
InitCog ==
    /\ cookie_available = FALSE
    /\ cookie_prepared_timestamp = None
    /\ cookie_drop_delay_hours = None
    /\ cookie_drop_delay_minutes = None
    /\ cookie_type = None
    /\ UserTable = {}
    /\ CookieTable = [u \in {} |-> 0]
    /\ gimmes = <<>>
    /\ cookie_monsters = {}
    /\ drops = 0
    /\ last_check = [force_drop |-> FALSE, outcome |-> "none"]

\* no call of the data layer runs and no session was made
InitData ==
    /\ frames = <<>>
    /\ sessions = <<>>
    /\ finished = <<>>

----------------------------------------------------------------------------
(* Calls of parse()                                                        *)

\* parser.parse(lexer.tokenize(dice)) on a parser whose step_log is `log`:
\* the state in which the parse loop is entered
Call(dice, log, n) ==
    [text |-> dice, tokens |-> tokenize(dice, 1), statestack |-> <<"">>,
     symstack |-> <<EndToken>>, step_log |-> log, evaluations |-> n]

\* DiceParser() and the first call of parse()
Init ==
    \E dice \in Inputs :
        LET call == Call(dice, <<>>, 1) IN
        /\ text = call.text
        /\ tokens = call.tokens
        /\ statestack = call.statestack
        /\ symstack = call.symstack
        /\ lookahead = NoToken
        /\ lookaheadstack = <<>>
        /\ errorcount = 0
        /\ step_log = call.step_log
        /\ pc = "parsing"
        /\ result = NoResult
        /\ evaluations = call.evaluations
        /\ start_log = call.step_log
        /\ appended = <<>>
        /\ statements = 0
        /\ discarded = 0
        /\ rolls = <<>>
        /\ reduced = <<>>
        /\ command = ""
        /\ invoked = <<>>
        /\ outbox = <<>>
        /\ sent = <<>>
        /\ lists = <<call.step_log>>
        /\ log_id = 1
        /\ handed = <<>>
        /\ draws = 0
        /\ InitCog
        /\ InitData

\* one more call of parse() on the same DiceParser, by a caller that has
\* let go of what the earlier calls returned
ParseAgain ==
    /\ pc \in {"returned", "raised"}
    /\ evaluations < MaxEvaluations
    /\ \E dice \in FollowUps :
        LET call == Call(dice, step_log, evaluations + 1) IN
        /\ text' = call.text
        /\ tokens' = call.tokens
        /\ statestack' = call.statestack
        /\ symstack' = call.symstack
        /\ lookahead' = NoToken
        /\ lookaheadstack' = <<>>
        /\ errorcount' = 0
        /\ step_log' = call.step_log
        /\ pc' = "parsing"
        /\ result' = NoResult
        /\ evaluations' = call.evaluations
        /\ start_log' = call.step_log
        /\ appended' = <<>>
        /\ statements' = 0
        /\ discarded' = 0
        /\ rolls' = <<>>
        /\ reduced' = <<>>
        /\ lists' = <<call.step_log>>
        /\ log_id' = 1
        /\ handed' = <<>>
        /\ draws' = 0
        /\ UNCHANGED bot_vars

Next ==
    \/ ShiftToken
    \/ Reduce_statement
    \/ Reduce_roll
    \/ Reduce_plus
    \/ Reduce_minus
    \/ Reduce_times
    \/ Reduce_divide
    \/ Reduce_unary_minus
    \/ Reduce_parentheses
    \/ Reduce_number
    \/ AcceptResult
    \/ ErrorAtEnd
    \/ ErrorDiscard
    \/ ErrorPush
    \/ ErrorPop
    \/ ParseAgain

Spec == Init /\ [][Next]_vars

\* parse() is synchronous: a call that can take a step takes it
FairSpec == Spec /\ WF_vars(Next)

----------------------------------------------------------------------------
(* A caller that keeps every trace it was returned                         *)

\* the texts of its first call
SnapshotTexts ==
    {"2*(3+4)", "(1+2", "3 3 3", "1+2)3", "1/0", "-1*", "+1", "1-1", "2d-2",
     "(1/2)d(3/2)"}

InitSnapshot == Init /\ text \in SnapshotTexts

\* one more call of parse() on the same DiceParser, the lists returned so
\* far still in the caller's hands
ParseNext ==
    /\ pc \in {"returned", "raised"}
    /\ evaluations < MaxEvaluations
    /\ \E dice \in FollowUps :
        LET call == Call(dice, step_log, evaluations + 1) IN
        /\ text' = call.text
        /\ tokens' = call.tokens
        /\ statestack' = call.statestack
        /\ symstack' = call.symstack
        /\ lookahead' = NoToken
        /\ lookaheadstack' = <<>>
        /\ errorcount' = 0
        /\ step_log' = call.step_log
        /\ pc' = "parsing"
        /\ result' = NoResult
        /\ evaluations' = call.evaluations
        /\ start_log' = call.step_log
        /\ appended' = <<>>
        /\ statements' = 0
        /\ discarded' = 0
        /\ rolls' = <<>>
        /\ reduced' = <<>>
        /\ draws' = 0
        /\ UNCHANGED <<lists, log_id, handed>>
        /\ UNCHANGED bot_vars

NextSnapshot ==
    \/ ShiftToken
    \/ Reduce_statement
    \/ Reduce_roll
    \/ Reduce_plus
    \/ Reduce_minus
    \/ Reduce_times
    \/ Reduce_divide
    \/ Reduce_unary_minus
    \/ Reduce_parentheses
    \/ Reduce_number
    \/ AcceptResult
    \/ ErrorAtEnd
    \/ ErrorDiscard
    \/ ErrorPush
    \/ ErrorPop
    \/ ParseNext

SpecSnapshot == InitSnapshot /\ [][NextSnapshot]_vars

----------------------------------------------------------------------------
(* DiceRollerCog: the commands roll and r.  The bot runs its handlers on   *)
(* one event loop: a handler runs alone up to `await ctx.send(...)`, where *)
(* it is suspended until the message is delivered, and other handlers may  *)
(* run meanwhile.  The parser variables are those of the handler that      *)
(* runs; a suspended handler never touches its parser again.               *)

\* the texts the commands are invoked with
RollTexts ==
    {"", "2@+3", "2*(3+4)", "(1+2)*3", "1+2", "1/2/2", "7/2", "0/-1", "2d2",
     "0d0", "(1-2)d2", "+1", "(1", "-1*", "1+2)3", "1-1)", "1/0"}

SyntaxErrorMessage ==
    "There was an error with your roll syntax. Please try again."

\* if result.is_integer(): result = int(result), then f'{result}'
Shown(value) == IF is_integer(value) THEN ToString(value.n) ELSE str(value)

\* for step in step_data: description += step + '\n'
RECURSIVE Steps(_)
Steps(step_data) ==
    IF step_data = <<>> THEN ""
    ELSE Head(step_data) \o "\n" \o Steps(Tail(step_data))

\* stands for the code fence of three backquotes (a character that a string
\* of this module cannot hold)
Fence == "'''"

\* the description of the embed (its title and colour do not depend on the
\* roll)
Description(step_data, value) ==
    "**Result:**\n" \o Fence \o "\n" \o Shown(value) \o "\n" \o Fence
    \o "\n**Steps:**\n" \o Fence \o "\n" \o Steps(step_data) \o Fence

\* a handler that lets the failed unpacking pass as an empty result
Reply_no_except(cmd, res) ==
    IF res.kind = "None"
    THEN [command |-> cmd, content |-> "None",
          embed |-> Description(<<>>, PyFloat(0, 1, FALSE))]
    ELSE [command |-> cmd, content |-> "None",
          embed |-> Description(res.trace, res.value)]

\* what the handler passes to ctx.send: unpacking None raises TypeError, and
\* the except clause sends the plain text; else the embed
Reply(cmd, res) ==
    IF res.kind = "None"
    THEN [command |-> cmd, content |-> SyntaxErrorMessage, embed |-> "None"]
    ELSE [command |-> cmd, content |-> "None",
          embed |-> Description(res.trace, res.value)]

\* one parser kept by the cog for all its commands
NewStepLog_shared == step_log

\* DiceParser(): self.step_log = []
NewStepLog == <<>>

\* history of a command: its text, where its handler is, what parse() gave
\* it and the entries its evaluation logged
Handler(dice, status) ==
    [dice |-> dice, status |-> status, result |-> NoResult, appended |-> <<>>]

Idle == pc = "idle"

\* the handler of `cmd` starts: nothing to do for an empty text, else a new
\* lexer and a new parser, and parse() is entered
Begin(cmd, dice) ==
    /\ cmd \notin DOMAIN invoked
    /\ IF dice = ""
       THEN /\ invoked' = (cmd :> Handler(dice, "returned")) @@ invoked
            /\ UNCHANGED <<text, tokens, statestack, symstack, lookahead,
                           lookaheadstack, errorcount, step_log, pc, result,
                           evaluations, start_log, appended, statements,
                           discarded, rolls, reduced, command>>
            /\ UNCHANGED kept_vars
       ELSE LET call == Call(dice, NewStepLog, 1) IN
            /\ invoked' = (cmd :> Handler(dice, "running")) @@ invoked
            /\ command' = cmd
            /\ text' = call.text
            /\ tokens' = call.tokens
            /\ statestack' = call.statestack
            /\ symstack' = call.symstack
            /\ lookahead' = NoToken
            /\ lookaheadstack' = <<>>
            /\ errorcount' = 0
            /\ step_log' = call.step_log
            /\ pc' = "parsing"
            /\ result' = NoResult
            /\ evaluations' = call.evaluations
            /\ start_log' = call.step_log
            /\ appended' = <<>>
            /\ statements' = 0
            /\ discarded' = 0
            /\ rolls' = <<>>
            /\ reduced' = <<>>
            /\ lists' = <<call.step_log>>
            /\ log_id' = 1
            /\ handed' = <<>>
            /\ draws' = 0
    /\ UNCHANGED <<outbox, sent>>
    /\ UNCHANGED <<cookie_vars, db_vars>>

\* async def roll(self, ctx, dice)
roll ==
    /\ Idle
    /\ \E dice \in RollTexts : Begin("roll", dice)

\* async def r(self, ctx, text): return await self.roll(ctx, text)
r ==
    /\ Idle
    /\ \E dice \in RollTexts : Begin("r", dice)

parser_vars == <<text, tokens, statestack, symstack, lookahead, lookaheadstack,
                 errorcount, step_log, result, evaluations, start_log,
                 appended, statements, discarded, rolls, reduced, kept_vars>>

\* parse() has returned: the handler builds its one message and is suspended
\* in `await ctx.send(...)`
roll_send ==
    /\ pc = "returned"
    /\ command # ""
    /\ outbox' = Append(outbox, Reply(command, result))
    /\ invoked' = [invoked EXCEPT ![command] =
                       [@ EXCEPT !.status = "awaiting", !.result = result,
                                 !.appended = appended]]
    /\ pc' = "idle"
    /\ command' = ""
    /\ UNCHANGED parser_vars
    /\ UNCHANGED sent
    /\ UNCHANGED <<cookie_vars, db_vars>>

\* parse() has raised something that is no TypeError: it leaves the handler
roll_raise ==
    /\ pc = "raised"
    /\ command # ""
    /\ invoked' = [invoked EXCEPT ![command] =
                       [@ EXCEPT !.status = "raised", !.result = result,
                                 !.appended = appended]]
    /\ pc' = "idle"
    /\ command' = ""
    /\ UNCHANGED parser_vars
    /\ UNCHANGED <<outbox, sent>>
    /\ UNCHANGED <<cookie_vars, db_vars>>

\* a message arrives in the channel; its handler resumes and returns
Deliver ==
    \E i \in DOMAIN outbox :
        /\ sent' = Append(sent, outbox[i])
        /\ outbox' = SubSeq(outbox, 1, i - 1)
                      \o SubSeq(outbox, i + 1, Len(outbox))
        /\ invoked' = [invoked EXCEPT ![outbox[i].command] =
                           [@ EXCEPT !.status = "returned"]]
        /\ UNCHANGED parser_vars
        /\ UNCHANGED <<pc, command>>
        /\ UNCHANGED <<cookie_vars, db_vars>>

\* the bot is up and no command has arrived
InitRoll ==
    /\ text = ""
    /\ tokens = <<>>
    /\ statestack = <<"">>
    /\ symstack = <<EndToken>>
    /\ lookahead = NoToken
    /\ lookaheadstack = <<>>
    /\ errorcount = 0
    /\ step_log = <<>>
    /\ pc = "idle"
    /\ result = NoResult
    /\ evaluations = 0
    /\ start_log = <<>>
    /\ appended = <<>>
    /\ statements = 0
    /\ discarded = 0
    /\ rolls = <<>>
    /\ reduced = <<>>
    /\ command = ""
    /\ invoked = <<>>
    /\ outbox = <<>>
    /\ sent = <<>>
    /\ lists = <<<<>>>>
    /\ log_id = 1
    /\ handed = <<>>
    /\ draws = 0
    /\ InitCog
    /\ InitData

NextRoll ==
    \/ roll
    \/ r
    \/ ShiftToken
    \/ Reduce_statement
    \/ Reduce_roll
    \/ Reduce_plus
    \/ Reduce_minus
    \/ Reduce_times
    \/ Reduce_divide
    \/ Reduce_unary_minus
    \/ Reduce_parentheses
    \/ Reduce_number
    \/ AcceptResult
    \/ ErrorAtEnd
    \/ ErrorDiscard
    \/ ErrorPush
    \/ ErrorPop
    \/ roll_send
    \/ roll_raise
    \/ Deliver

SpecRoll == InitRoll /\ [][NextRoll]_vars

----------------------------------------------------------------------------
(* CookieHuntCog: the task loop drops a cookie, the gimme command claims   *)
(* it.  The handlers run on the bot's one event loop: each runs alone from *)
(* its start, or from the await it was suspended in, up to its next await  *)
(* or its end.  The data layer is synchronous: a call of data_access has   *)
(* committed when it returns.                                              *)

\* the members that send commands, by discord id
Authors == {"ann", "bob"}

\* data/cookies.json: the kinds of cookie, every weight positive
CookieData ==
    {[name |-> "sugar", target |-> "claimer", modifier |-> 1],
     [name |-> "double", target |-> "claimer", modifier |-> 2],
     [name |-> "burnt", target |-> "leader", modifier |-> -1]}

\* config['content']['cookie_hunt_goal']
cookie_hunt_goal == 2

\* config['content']['cookie_hunt_hour_variance']
cookie_hunt_hour_variance == <<0, 0>>

\* the outcomes of randint(0, 59) the model draws: the least and the greatest
MinuteDelays == {0, 59}

\* datetime.now() - self.cookie_prepared_timestamp, in minutes: the clock is
\* not the program's, any time may have passed
TimeDeltas == {0, 30, 60}

\* the text channels _pick_random_channel_to_send may come back with
Channels == {"kitchen"}

NoCookieMessage == "There is no cookie available right now. Sorry!"

\* the announcement of award_winner
Winner(author) ==
    "Oh my, it looks like " \o author \o " is the cookie monster!"

\* the message of a claimed cookie; the leader is named in place of 'They'
Got(author, type, cookie_count) ==
    author \o " got a " \o type.name \o " cookie! "
    \o (IF type.target = "claimer" THEN "They now have "
        ELSE "The leader now has ")
    \o ToString(cookie_count)
    \o (IF cookie_count = 1 THEN " cookie." ELSE " cookies.")

\* the instance variables of a drop
Drop ==
    [cookie_available |-> cookie_available,
     cookie_prepared_timestamp |-> cookie_prepared_timestamp,
     cookie_drop_delay_hours |-> cookie_drop_delay_hours,
     cookie_drop_delay_minutes |-> cookie_drop_delay_minutes,
     cookie_type |-> cookie_type]

SetDrop(d) ==
    /\ cookie_available' = d.cookie_available
    /\ cookie_prepared_timestamp' = d.cookie_prepared_timestamp
    /\ cookie_drop_delay_hours' = d.cookie_drop_delay_hours
    /\ cookie_drop_delay_minutes' = d.cookie_drop_delay_minutes
    /\ cookie_type' = d.cookie_type

drop_vars == <<cookie_available, cookie_prepared_timestamp,
               cookie_drop_delay_hours, cookie_drop_delay_minutes,
               cookie_type>>

\* a preparation that leaves the dropped cookie to be claimed again
prep_cookie_drop_claimable(hour_delay, minute_delay, type) ==
    [cookie_available |-> cookie_available,
     cookie_prepared_timestamp |-> Some("datetime.now()"),
     cookie_drop_delay_hours |-> Some(hour_delay),
     cookie_drop_delay_minutes |-> Some(minute_delay),
     cookie_type |-> Some(type)]

\* def _prep_cookie_drop(self), for the numbers and the cookie it drew
prep_cookie_drop(hour_delay, minute_delay, type) ==
    [cookie_available |-> FALSE,
     cookie_prepared_timestamp |-> Some("datetime.now()"),
     cookie_drop_delay_hours |-> Some(hour_delay),
     cookie_drop_delay_minutes |-> Some(minute_delay),
     cookie_type |-> Some(type)]

\* every drop _prep_cookie_drop may prepare now
Prepared ==
    {prep_cookie_drop(hour_delay, minute_delay, type) :
        hour_delay \in randint(cookie_hunt_hour_variance[1],
                               cookie_hunt_hour_variance[2]),
        minute_delay \in MinuteDelays,
        type \in CookieData}

\* data_access.get_top_cookie_collectors(1): the rows with the most cookies,
\* of those with any; which of them comes first is up to the database
TopCollectors ==
    {u \in DOMAIN CookieTable :
        /\ CookieTable[u] > 0
        /\ \A v \in DOMAIN CookieTable : CookieTable[v] <= CookieTable[u]}

\* get_target_discord_id: the ids it may return; none: [0] raises IndexError
Targets(target, author) ==
    IF target = "claimer" THEN {author}
    ELSE IF target = "leader" THEN TopCollectors
    ELSE {author}

\* data_access.modify_cookie_count: the count of the user afterwards
ModifiedCount(user_id, count_modifier) ==
    IF user_id \notin DOMAIN CookieTable
    THEN IF count_modifier > 0 THEN count_modifier ELSE 0
    ELSE IF count_modifier < 0 /\ CookieTable[user_id] < -count_modifier
    THEN 0
    ELSE CookieTable[user_id] + count_modifier

\* the handler of a gimme command: whose it is, where it is, what it has
\* passed to ctx.send and, history, which drop it claimed (0: none)
Gimme(author, pos, reply, drop) ==
    [author |-> author, pos |-> pos, reply |-> reply, drop |-> drop]

dice_vars == <<parser_vars, pc, cog_vars>>

\* async def gimme(self, ctx), from its start to its first await
gimme ==
    /\ Len(gimmes) < MaxGimmes
    /\ \E author \in Authors :
        IF ~cookie_available
        THEN /\ gimmes' = Append(gimmes,
                     Gimme(author, "no_cookie", NoCookieMessage, 0))
             /\ UNCHANGED <<drop_vars, UserTable, CookieTable>>
        ELSE \E prepared \in Prepared :
             LET type == cookie_type[1]
                 targets == Targets(type.target, author)
             IN  /\ SetDrop(prepared)
                 /\ IF targets = {}
                    THEN /\ gimmes' = Append(gimmes,
                                 Gimme(author, "raised", "", drops))
                         /\ UNCHANGED <<UserTable, CookieTable>>
                    ELSE \E target_discord_id \in targets :
                         LET cookie_count ==
                                 ModifiedCount(target_discord_id,
                                               type.modifier)
                         IN  /\ UserTable' =
                                    UserTable \cup {target_discord_id}
                             /\ CookieTable' =
                                    [u \in DOMAIN CookieTable
                                           \cup {target_discord_id} |->
                                        IF u = target_discord_id
                                        THEN cookie_count
                                        ELSE CookieTable[u]]
                             /\ IF cookie_count >= cookie_hunt_goal
                                THEN gimmes' = Append(gimmes,
                                         Gimme(author, "announce",
                                               Winner(author), drops))
                                ELSE gimmes' = Append(gimmes,
                                         Gimme(author, "got",
                                               Got(author, type,
                                                   cookie_count), drops))
    /\ UNCHANGED <<cookie_monsters, drops, last_check>>
    /\ UNCHANGED <<dice_vars, db_vars>>

\* data_access.reset_all_cookies()
reset_all_cookies == [u \in DOMAIN CookieTable |-> 0]

\* award_winner has announced the winner: if the guild has the role of the
\* winner it takes the role from those that hold it and gives it to the
\* author, awaiting each change; if not it returns to gimme, which resets
\* the cookie counts
award_winner ==
    /\ \E g \in DOMAIN gimmes :
        /\ gimmes[g].pos = "announce"
        /\ \E role_data \in BOOLEAN :
            IF role_data
            THEN /\ gimmes' = [gimmes EXCEPT ![g].pos = "roles"]
                 /\ UNCHANGED CookieTable
            ELSE /\ gimmes' = [gimmes EXCEPT ![g].pos = "returned"]
                 /\ CookieTable' = reset_all_cookies
    /\ UNCHANGED <<drop_vars, UserTable, cookie_monsters, drops, last_check>>
    /\ UNCHANGED <<dice_vars, db_vars>>

\* the roles are changed (the awaits of the changes are taken as one):
\* award_winner returns and gimme resets the cookie counts
gimme_reset ==
    /\ \E g \in DOMAIN gimmes :
        /\ gimmes[g].pos = "roles"
        /\ gimmes' = [gimmes EXCEPT ![g].pos = "returned"]
        /\ cookie_monsters' = {gimmes[g].author}
        /\ CookieTable' = reset_all_cookies
    /\ UNCHANGED <<drop_vars, UserTable, drops, last_check>>
    /\ UNCHANGED <<dice_vars, db_vars>>

\* the message of a gimme is out: the handler returns
gimme_return ==
    /\ \E g \in DOMAIN gimmes :
        /\ gimmes[g].pos \in {"no_cookie", "got"}
        /\ gimmes' = [gimmes EXCEPT ![g].pos = "returned"]
    /\ UNCHANGED <<drop_vars, UserTable, CookieTable, cookie_monsters, drops,
                   last_check>>
    /\ UNCHANGED <<dice_vars, db_vars>>

\* a forced drop that does not look whether a cookie is out
ShouldDrop_forced(force_drop, due, available) ==
    force_drop \/ (due /\ ~available)

\* (force_drop or time_delta > timedelta(...)) and not self.cookie_available
ShouldDrop(force_drop, due, available) ==
    (force_drop \/ due) /\ ~available

\* async def _check_to_send_cookie(self, force_drop): the whole of it, its
\* one await being its last statement
CheckToSend(force_drop) ==
    \E planned \in (IF cookie_drop_delay_hours = None
                    THEN Prepared ELSE {Drop}),
       time_delta \in TimeDeltas :
        LET due == time_delta > 60 * planned.cookie_drop_delay_hours[1]
                                + planned.cookie_drop_delay_minutes[1]
            dropping == ShouldDrop(force_drop, due, planned.cookie_available)
        IN  \E channel \in (IF dropping
                            THEN {None} \cup {Some(c) : c \in Channels}
                            ELSE {None}) :
            LET sending == dropping /\ channel # None IN
            /\ SetDrop(IF sending
                       THEN [planned EXCEPT !.cookie_available = TRUE]
                       ELSE planned)
            /\ drops' = IF sending THEN drops + 1 ELSE drops
            /\ last_check' =
                   [force_drop |-> force_drop,
                    outcome |-> IF sending THEN "sent"
                                ELSE IF dropping THEN "no_channel"
                                ELSE "none"]
            /\ UNCHANGED <<UserTable, CookieTable, gimmes, cookie_monsters>>

\* @tasks.loop(minutes=1): an iteration of the loop
check_to_send_cookie ==
    /\ CheckToSend(FALSE)
    /\ UNCHANGED <<dice_vars, db_vars>>

\* async def force_drop(self, ctx): await self._check_to_send_cookie(True)
force_drop ==
    /\ CheckToSend(TRUE)
    /\ UNCHANGED <<dice_vars, db_vars>>

\* the bot is up, the cog is loaded and no command has arrived
InitCookie == InitRoll

NextCookie ==
    \/ gimme
    \/ award_winner
    \/ gimme_reset
    \/ gimme_return
    \/ check_to_send_cookie
    \/ force_drop

SpecCookie == InitCookie /\ [][NextCookie]_vars

----------------------------------------------------------------------------
(* DatabaseMethod: the decorator of the data layer.  run() makes a session *)
(* unless it was passed one, runs the decorated method (super().run) and   *)
(* then commits, or rolls back, and closes the session if it made it.  The *)
(* decorated methods pass their session to the methods they call and       *)
(* catch nothing.                                                          *)

\* a call of run() that has not returned: whether its session was passed
\* in, the session, where it is ("body": in the decorated method,
\* "raising": an exception is leaving the method) and, history, the depth
\* at which that exception was raised
Frame(external_session, session, state, raised_at) ==
    [external_session |-> external_session, session |-> session,
     state |-> state, raised_at |-> raised_at]

\* what was done with a session ("call": it was passed to a method), and,
\* history, by the call at which depth
Event(op, depth) == [op |-> op, depth |-> depth]

\* history of an outermost call that came to an end
Finished(session, outcome, exception, raised_at, nested) ==
    [session |-> session, outcome |-> outcome, exception |-> exception,
     raised_at |-> raised_at, nested |-> nested]

\* a run() that takes every session for its own
Manages_always(frame) == TRUE

\* if not external_session
Manages(frame) == ~frame.external_session

\* the calls made below the outermost one so far
Nested == Cardinality({e \in DOMAIN sessions[frames[1].session] :
                          sessions[frames[1].session][e].op = "call"})

\* the call on top returns or raises to its caller: the caller goes on, or
\* has the exception in its own method, which does not catch it
Leave(outcome, exception, raised_at, log) ==
    LET depth == Len(frames)
        below == DropLast(frames, 1)
    IN  /\ frames' =
               IF depth > 1 /\ outcome = "raised"
               THEN [below EXCEPT ![depth - 1].state = "raising",
                                  ![depth - 1].raised_at = raised_at]
               ELSE below
        /\ finished' =
               IF depth = 1
               THEN Append(finished,
                        Finished(frames[1].session, outcome, exception,
                                 raised_at,
                                 Cardinality({e \in DOMAIN log :
                                                 log[e].op = "call"})))
               ELSE finished

db_frame == <<dice_vars, cookie_vars>>

\* run() is called without a session: session = SessionObject()
run ==
    /\ frames = <<>>
    /\ Len(finished) < MaxCalls
    /\ sessions' = Append(sessions, <<>>)
    /\ frames' = <<Frame(FALSE, Len(sessions) + 1, "body", 0)>>
    /\ UNCHANGED finished
    /\ UNCHANGED db_frame

\* the decorated method calls another one with session=session
run_nested ==
    /\ frames # <<>>
    /\ Last(frames).state = "body"
    /\ Len(frames) < MaxDepth
    /\ Nested < MaxDepth
    /\ frames' = Append(frames, Frame(TRUE, Last(frames).session, "body", 0))
    /\ sessions' = [sessions EXCEPT ![Last(frames).session] =
                        Append(@, Event("call", Len(frames) + 1))]
    /\ UNCHANGED finished
    /\ UNCHANGED db_frame

\* the decorated method returns: run() commits and closes the session it
\* made; a commit that raises is rolled back like any other exception
run_return ==
    /\ frames # <<>>
    /\ Last(frames).state = "body"
    /\ LET top == Last(frames)
           depth == Len(frames)
           log == sessions[top.session]
       IN  IF Manages(top)
           THEN \E committed \in BOOLEAN :
                LET done == IF committed
                            THEN <<Event("commit", depth),
                                   Event("close", depth)>>
                            ELSE <<Event("commit raised", depth),
                                   Event("rollback", depth),
                                   Event("close", depth)>>
                IN  /\ sessions' = [sessions EXCEPT ![top.session] = log \o done]
                    /\ Leave(IF committed THEN "returned" ELSE "raised",
                             IF committed THEN "" ELSE "commit",
                             0, log \o done)
           ELSE /\ UNCHANGED sessions
                /\ Leave("returned", "", 0, log)
    /\ UNCHANGED db_frame

\* the decorated method raises
run_raise ==
    /\ frames # <<>>
    /\ Last(frames).state = "body"
    /\ frames' = [frames EXCEPT ![Len(frames)].state = "raising",
                                ![Len(frames)].raised_at = Len(frames)]
    /\ UNCHANGED <<sessions, finished>>
    /\ UNCHANGED db_frame

\* except Exception as exception: rollback if the session is run()'s own,
\* raise exception; finally: close if the session is run()'s own
run_except ==
    /\ frames # <<>>
    /\ Last(frames).state = "raising"
    /\ LET top == Last(frames)
           depth == Len(frames)
           log == sessions[top.session]
           done == IF Manages(top)
                   THEN <<Event("rollback", depth), Event("close", depth)>>
                   ELSE <<>>
       IN  /\ sessions' = [sessions EXCEPT ![top.session] = log \o done]
           /\ Leave("raised", "method", top.raised_at, log \o done)
    /\ UNCHANGED db_frame

InitDatabase == InitRoll

NextDatabase ==
    \/ run
    \/ run_nested
    \/ run_return
    \/ run_raise
    \/ run_except

SpecDatabase == InitDatabase /\ [][NextDatabase]_vars

----------------------------------------------------------------------------
(* What the claims speak of                                                *)

Succeeded == pc = "returned" /\ result.kind = "pair"

SyntaxFailure == pc = "returned" /\ result.kind = "None"

\* the types of the tokens of a text
TokenTypes(s) == LET toks == tokenize(s, 1) IN [i \in DOMAIN toks |-> toks[i].type]

\* the grammar itself: ts derives from expr by the rules of DiceParser
RECURSIVE IsExpr(_)
IsExpr(ts) ==
    /\ Len(ts) >= 1
    /\ \/ ts = <<"NUMBER">>
       \/ ts[1] = "MINUS" /\ IsExpr(Tail(ts))
       \/ /\ Len(ts) >= 3
          /\ ts[1] = "LEFT_PARENTHESES"
          /\ Last(ts) = "RIGHT_PARENTHESES"
          /\ IsExpr(SubSeq(ts, 2, Len(ts) - 1))
       \/ \E i \in 2 .. Len(ts) - 1 :
            /\ ts[i] \in BinaryOperator
            /\ IsExpr(SubSeq(ts, 1, i - 1))
            /\ IsExpr(SubSeq(ts, i + 1, Len(ts)))

\* ts derives from statement
IsStatement(ts) == IsExpr(ts)

\* the malformed inputs of the specification: no token, a leading binary
\* operator, a trailing operator, a left parenthesis that is never closed
Malformed(ts) ==
    \/ ts = <<>>
    \/ ts[1] \in BinaryOperator \ {"MINUS"}
    \/ Last(ts) \in BinaryOperator
    \/ Count(ts, "LEFT_PARENTHESES") > Count(ts, "RIGHT_PARENTHESES")

Number(c) == PyInt(DigitValue(c))

Apply(sign, x, y) ==
    CASE sign = "+" -> add(x, y)
      [] sign = "-" -> sub(x, y)
      [] sign = "*" -> mul(x, y)
      [] sign = "/" -> div(x, y)

UnaryEntry(x) == <<"-(" \o str(x) \o ")=" \o str(neg(x))>>

\* the outcomes of a roll as the specification writes them: glyph and value,
\* one space between two outcomes
RECURSIVE Outcomes(_)
Outcomes(die_values) ==
    IF die_values = <<>> THEN ""
    ELSE IF Len(die_values) = 1 THEN DieGlyph \o ToString(die_values[1])
    ELSE DieGlyph \o ToString(Head(die_values)) \o " " \o Outcomes(Tail(die_values))

----------------------------------------------------------------------------
(* The claims                                                              *)

\* C1: every successful call of parse reduces `statement` exactly once and
\* returns one pair whose trace is exactly the entries appended during this
\* call, in order, whose value is a float, and leaves step_log empty.
C1_OneResultPerCall ==
    Succeeded =>
        /\ statements = 1
        /\ result.trace = appended
        /\ result.value.f
        /\ step_log = <<>>

\* C2: step_log is empty at the start of every evaluation on a parser,
\* whatever the earlier evaluations did, so a returned trace holds only the
\* entries of its own evaluation.
C2_TraceIsolation ==
    /\ start_log = <<>>
    /\ Succeeded => result.trace = appended

\* C3: a text with a leading binary operator, a trailing operator, an
\* unmatched left parenthesis or no token ends in the syntax-error signal
\* (parse returns None), never in a numeric result.
C3_MalformedIsSyntaxError ==
    (pc # "parsing" /\ Malformed(TokenTypes(text))) => SyntaxFailure

\* C4: when an evaluation returns a pair, the whole token stream of its
\* input derives from `statement`: no token was skipped to reach the result.
C4_WholeInputParsed ==
    Succeeded => IsStatement(TokenTypes(text))

\* C5: + and - bind less tightly than * and /, which bind less tightly than
\* d: in a+bdc and a*bdc the roll b d c comes first, in adb+c and adb*c the
\* roll a d b comes first, a+b*c multiplies first; "2+3d1" is 5.
C5_Precedence ==
    Succeeded =>
        /\ \A a \in OperandDigit, b \in OperandDigit, c \in OperandDigit :
            LET x == Number(a)
                y == Number(b)
                z == Number(c)
            IN  /\ \A sign \in {"+", "*"} :
                    text = a \o sign \o b \o "d" \o c =>
                        /\ Len(rolls) = 1
                        /\ rolls[1].number_of_dice = y.n
                        /\ rolls[1].die_max_value = z.n
                        /\ LET t == PyInt(rolls[1].returned) IN
                           /\ appended = rolls[1].entries
                                  \o BinaryEntry(x, sign, t, Apply(sign, x, t))
                           /\ result.value = float(Apply(sign, x, t))
                /\ \A sign \in {"+", "*"} :
                    text = a \o "d" \o b \o sign \o c =>
                        /\ Len(rolls) = 1
                        /\ rolls[1].number_of_dice = x.n
                        /\ rolls[1].die_max_value = y.n
                        /\ LET t == PyInt(rolls[1].returned) IN
                           /\ appended = rolls[1].entries
                                  \o BinaryEntry(t, sign, z, Apply(sign, t, z))
                           /\ result.value = float(Apply(sign, t, z))
                /\ text = a \o "+" \o b \o "*" \o c =>
                        /\ appended = BinaryEntry(y, "*", z, mul(y, z))
                               \o BinaryEntry(x, "+", mul(y, z), add(x, mul(y, z)))
                        /\ result.value = float(add(x, mul(y, z)))
        /\ text = "2+3d1" =>
                /\ appended = <<"3d1=3(" \o DieGlyph \o "1 " \o DieGlyph \o "1 "
                                \o DieGlyph \o "1)", "2+3=5">>
                /\ result.value = float(PyInt(5))

C5_Witness ==
    /\ Succeeded
    /\ text = "2+3d1"
    /\ Len(rolls) = 1
    /\ rolls[1].die_values = <<1, 1, 1>>
    /\ result.trace = appended
    /\ Len(appended) = 2

\* C6: every binary operator associates to the left: a-b-c is (a-b)-c,
\* a/b/c is (a/b)/c, and in adbdc the total of a d b is the dice count of the
\* second roll, whose entry comes after the first roll's.
C6_LeftAssociative ==
    Succeeded =>
        /\ \A a \in OperandDigit, b \in OperandDigit, c \in OperandDigit :
            LET x == Number(a)
                y == Number(b)
                z == Number(c)
            IN  /\ \A sign \in {"+", "-", "*", "/"} :
                    text = a \o sign \o b \o sign \o c =>
                        LET first == Apply(sign, x, y) IN
                        /\ appended = BinaryEntry(x, sign, y, first)
                               \o BinaryEntry(first, sign, z, Apply(sign, first, z))
                        /\ result.value = float(Apply(sign, first, z))
                /\ text = a \o "d" \o b \o "d" \o c =>
                        /\ Len(rolls) = 2
                        /\ rolls[1].number_of_dice = x.n
                        /\ rolls[1].die_max_value = y.n
                        /\ rolls[2].number_of_dice = rolls[1].roll_total
                        /\ rolls[2].die_max_value = z.n
                        /\ appended = rolls[1].entries \o rolls[2].entries
                        /\ result.value = float(PyInt(rolls[2].returned))
        /\ text = "2-1-1" =>
                /\ appended = <<"2-1=1", "1-1=0">>
                /\ result.value = float(PyInt(0))
        /\ text = "2/2/2" =>
                /\ appended = <<"2/2=1.0", "1.0/2=0.5">>
                /\ result.value = PyFloat(1, 2, FALSE)

C6_Witness ==
    /\ Succeeded
    /\ text = "2d2d2"
    /\ Len(rolls) = 2
    /\ rolls[1].roll_total = 3
    /\ Len(rolls[2].die_values) = 3
    /\ result.value = float(PyInt(6))

\* C7: unary minus takes the one expression after it, before a following
\* * / + - but after a roll to its right: -a*b is (-a)*b with "-(a)=-a"
\* logged first, -adb is -(a d b) with the roll logged before "-(T)=-T".
C7_UnaryMinus ==
    Succeeded =>
        /\ \A a \in OperandDigit, b \in OperandDigit :
            LET x == Number(a)
                y == Number(b)
            IN  /\ \A sign \in {"+", "-", "*", "/"} :
                    text = "-" \o a \o sign \o b =>
                        /\ appended = UnaryEntry(x)
                               \o BinaryEntry(neg(x), sign, y, Apply(sign, neg(x), y))
                        /\ result.value = float(Apply(sign, neg(x), y))
                /\ text = "-" \o a \o "d" \o b =>
                        /\ Len(rolls) = 1
                        /\ rolls[1].number_of_dice = x.n
                        /\ rolls[1].die_max_value = y.n
                        /\ ~rolls[1].invert_result
                        /\ appended = <<rolls[1].step_string>>
                               \o UnaryEntry(PyInt(rolls[1].roll_total))
                        /\ result.value = float(PyInt(-rolls[1].roll_total))
        /\ text = "-1*2" =>
                /\ appended = <<"-(1)=-1", "-1*2=-2">>
                /\ result.value = float(PyInt(-2))

C7_Witness ==
    /\ Succeeded
    /\ text = "-2d2"
    /\ Len(rolls) = 1
    /\ rolls[1].roll_total = 3
    /\ appended[2] = "-(3)=-3"
    /\ result.value = float(PyInt(-3))

\* what C8 says of both texts but for invert_result: three dice of six
\* sides, the roll entry directly followed by the negation entry at the end
\* of the trace, and the value -T for the outcomes drawn
InvertedThreeD6 ==
    /\ Len(rolls) = 1
    /\ rolls[1].number_of_dice = 3
    /\ rolls[1].die_max_value = 6
    /\ Len(rolls[1].die_values) = 3
    /\ LET total == Sum(rolls[1].die_values) IN
       /\ Len(appended) >= 2
       /\ SubSeq(appended, Len(appended) - 1, Len(appended))
              = <<"3d6=" \o ToString(total) \o "(" \o Outcomes(rolls[1].die_values)
                    \o ")",
                  "-(" \o ToString(total) \o ")=-" \o ToString(total)>>
       /\ result.value = float(PyInt(-total))

\* C8 as it stands: "(2-5)d6" and "-3d6" both set invert_result inside the
\* roll production, draw 3 dice, log "3d6=T(...)" then "-(T)=-T" and return -T.
C8_BothInvertInRoll ==
    (Succeeded /\ text \in {"(2-5)d6", "-3d6"}) =>
        /\ InvertedThreeD6
        /\ rolls[1].invert_result

\* C8, amended: "(2-5)d6" sets invert_result inside the roll production,
\* "-3d6" is -(3d6) and rolls with invert_result false, its negation entry
\* coming from unary minus; both draw 3 dice, log "3d6=T(...)" then
\* "-(T)=-T" and return -T, where "3d6" returns T for the same outcomes.
C8_Inversion ==
    /\ (Succeeded /\ text \in {"(2-5)d6", "-3d6"}) =>
        /\ InvertedThreeD6
        /\ rolls[1].invert_result <=> (text = "(2-5)d6")
    /\ (Succeeded /\ text = "3d6") =>
        /\ Len(rolls) = 1
        /\ ~rolls[1].invert_result
        /\ result.value = float(PyInt(Sum(rolls[1].die_values)))

C8_Witness ==
    /\ Succeeded
    /\ text = "(2-5)d6"
    /\ rolls[1].invert_result
    /\ rolls[1].die_values = <<1, 3, 6>>
    /\ result.trace = <<"2-5=-3",
                        "3d6=10(" \o DieGlyph \o "1 " \o DieGlyph \o "3 "
                            \o DieGlyph \o "6)",
                        "-(10)=-10">>
    /\ result.value = float(PyInt(-10))

\* C9: a roll produces exactly as many outcomes as dice; each is in
\* [1, sides] for sides > 0, in [sides, -1] for sides < 0 and 0 for sides = 0;
\* the total is their sum, within [n, n*sides], [n*sides, -n] or 0.
C9_RollRange ==
    \A i \in DOMAIN rolls :
        LET it == rolls[i]
            n == it.number_of_dice
            sides == it.die_max_value
        IN  /\ n >= 0
            /\ Len(it.die_values) = n
            /\ \A k \in DOMAIN it.die_values :
                LET v == it.die_values[k] IN
                /\ sides > 0 => (1 <= v /\ v <= sides)
                /\ sides < 0 => (sides <= v /\ v <= -1)
                /\ sides = 0 => v = 0
            /\ it.roll_total = Sum(it.die_values)
            /\ sides > 0 => (n <= it.roll_total /\ it.roll_total <= n * sides)
            /\ sides < 0 => (n * sides <= it.roll_total /\ it.roll_total <= -n)
            /\ sides = 0 => it.roll_total = 0

C9_Witness ==
    /\ Succeeded
    /\ text = "2d-2"
    /\ Len(rolls) = 1
    /\ rolls[1].die_values = <<-2, -1>>
    /\ rolls[1].roll_total = -3

\* C10: the entry of every roll, a roll of no dice included, is
\* "<count>d<sides>=<total>(" then the outcomes, glyph first, one space
\* apart, then ")"; "0d0" gives 0, no ceil entry and the entry "0d0=0()".
C10_RollEntryForm ==
    /\ \A i \in DOMAIN rolls :
        LET it == rolls[i] IN
        it.step_string = ToString(it.number_of_dice) \o "d"
                         \o ToString(it.die_max_value) \o "="
                         \o ToString(it.roll_total) \o "("
                         \o Outcomes(it.die_values) \o ")"
    /\ (Succeeded /\ text = "0d0") =>
        /\ result.value = float(PyInt(0))
        /\ result.trace = <<"0d0=0()">>

----------------------------------------------------------------------------
(* Division, the tokenizer and the shape of the trace                      *)

\* does `s` begin with `prefix`
StartsWith(s, prefix) ==
    Len(s) >= Len(prefix) /\ SubSeq(s, 1, Len(prefix)) = prefix

\* C11: a division whose right operand evaluates to zero does not raise: for
\* "1/0", "0/0" and "3/(2-2)" the division logs its "left/right=value" entry
\* and the evaluation completes with a (trace, value) pair.
C11_DivisionByZeroCompletes ==
    /\ pc # "raised"
    /\ \A zero \in {[text |-> "1/0", entry |-> "1/0="],
                     [text |-> "0/0", entry |-> "0/0="],
                     [text |-> "3/(2-2)", entry |-> "3/0="]} :
        (pc # "parsing" /\ evaluations = 1 /\ text = zero.text) =>
            /\ Succeeded
            /\ appended # <<>>
            /\ StartsWith(Last(appended), zero.entry)
            /\ result.trace = appended

\* the characters the specification lists as recognized
Recognized == Digit \cup {"+", "-", "*", "/", "(", ")", "d", " ", "\t", "\n"}

\* the text with every unrecognized character replaced by a space
RECURSIVE Blanked(_)
Blanked(s) ==
    IF s = "" THEN ""
    ELSE (IF CharAt(s, 1) \in Recognized THEN CharAt(s, 1) ELSE " ")
         \o Blanked(SubSeq(s, 2, Len(s)))

\* C12: an unrecognized character never aborts tokenizing: it is skipped,
\* so the tokens of a text are those of the text with every unrecognized
\* character replaced by a space, and parsing goes on from them; "2@+3"
\* gives the tokens, the trace and the value (5) of "2+3".
C12_UnrecognizedSkipped ==
    /\ tokenize(text, 1) = tokenize(Blanked(text), 1)
    /\ (pc = "parsing" /\ reduced = <<>> /\ symstack = <<EndToken>>
        /\ Fetching /\ lookaheadstack = <<>> /\ discarded = 0) =>
            tokens = tokenize(Blanked(text), 1)
    /\ (pc # "parsing" /\ evaluations = 1 /\ text \in {"2@+3", "2+3"}) =>
        /\ tokenize(text, 1) = <<Token("NUMBER", "2"), Token("PLUS", "+"),
                                 Token("NUMBER", "3")>>
        /\ Succeeded
        /\ result.trace = <<"2+3=5">>
        /\ result.value = float(PyInt(5))

C12_Witness ==
    /\ Succeeded
    /\ text = "2@+3"
    /\ Blanked(text) = "2 +3"
    /\ result.trace = <<"2+3=5">>

\* a text without the roll operator
DiceFree(s) == \A i \in DOMAIN TokenTypes(s) : TokenTypes(s)[i] # "DIE_ROLL"

\* what a new parser returns for some dice-free texts
FirstAnswer(s) ==
    CASE s = "2*(3+4)" -> [trace |-> <<"3+4=7", "2*7=14">>, value |-> 14]
      [] s = "(1+2)*3" -> [trace |-> <<"1+2=3", "3*3=9">>, value |-> 9]
      [] s = "1+2*3" -> [trace |-> <<"2*3=6", "1+6=7">>, value |-> 7]
      [] s = "2+3" -> [trace |-> <<"2+3=5">>, value |-> 5]
      [] s = "1+2" -> [trace |-> <<"1+2=3">>, value |-> 3]
      [] s = "4" -> [trace |-> <<>>, value |-> 4]

\* C13: a dice-free text is evaluated without any draw of randomness, and
\* every evaluation of it, on a new parser or on one that has evaluated any
\* texts before, returns the same trace and the same value; "2*(3+4)"
\* always returns (["3+4=7", "2*7=14"], 14).
C13_DiceFreeDeterministic ==
    /\ DiceFree(text) => rolls = <<>>
    /\ (pc = "returned" /\ text \in {"2*(3+4)", "(1+2)*3", "1+2*3", "2+3",
                                      "1+2", "4"}) =>
        /\ result.kind = "pair"
        /\ result.trace = FirstAnswer(text).trace
        /\ result.value = float(PyInt(FirstAnswer(text).value))

\* the operator occurrences of a dice-free token sequence
OperatorCount(ts) ==
    Cardinality({i \in DOMAIN ts : ts[i] \in BinaryOperator \ {"DIE_ROLL"}})

\* C14: the NUMBER and the parenthesis productions append nothing, the
\* parenthesis production returns the value of what it encloses, so the
\* evaluation of a dice-free expression logs exactly one entry per unary or
\* binary operator occurrence; "(1+2)*3" logs "1+2=3" then "3*3=9" and is 9.
C14_LeavesLogNothing ==
    /\ \A i \in DOMAIN reduced :
        LET it == reduced[i] IN
        /\ it.rule \in {"number", "parentheses"} =>
                (it.entries = <<>> /\ it.after = it.before)
        /\ it.rule = "parentheses" => it.value = it.args[2]
    /\ (Succeeded /\ DiceFree(text) /\ IsStatement(TokenTypes(text))) =>
        Len(appended) = OperatorCount(TokenTypes(text))
    /\ (Succeeded /\ text = "(1+2)*3") =>
        /\ appended = <<"1+2=3", "3*3=9">>
        /\ result.value = float(PyInt(9))

C14_Witness ==
    /\ Succeeded
    /\ text = "(1+2)*3"
    /\ \E i \in DOMAIN reduced :
        /\ reduced[i].rule = "parentheses"
        /\ reduced[i].value = PyInt(3)
        /\ reduced[i].before = <<"1+2=3">>
    /\ result.trace = <<"1+2=3", "3*3=9">>

\* the entries of a sequence of reductions, in the order of the reductions
RECURSIVE Entries(_)
Entries(reductions) ==
    IF reductions = <<>> THEN <<>>
    ELSE Head(reductions).entries \o Entries(Tail(reductions))

IsPrefix(p, q) == Len(p) <= Len(q) /\ SubSeq(q, 1, Len(p)) = p

\* C15: the trace is in post-order: when a binary production logs its
\* entry, both operands have been evaluated and every entry logged so far,
\* those of its operands included, stays in front of it; the trace is the
\* entries in the order of the reductions; "1+2*3" logs "2*3=6", then
\* "1+6=7".
C15_PostOrder ==
    /\ \A i \in DOMAIN reduced :
        LET it == reduced[i] IN
        it.rule \in {"roll", "plus", "minus", "times", "divide"} =>
            /\ it.entries # <<>>
            /\ it.after = it.before \o it.entries
            /\ \A k \in {1, 3} :
                \E j \in 1 .. i - 1 :
                    /\ reduced[j].value = it.args[k]
                    /\ IsPrefix(reduced[j].after, it.before)
    /\ appended = Entries(reduced)
    /\ (Succeeded /\ text = "1+2*3") =>
        /\ appended = <<"2*3=6", "1+6=7">>
        /\ result.value = float(PyInt(7))
    /\ (Succeeded /\ text = "2*(3+4)") =>
        /\ appended = <<"3+4=7", "2*7=14">>
        /\ result.value = float(PyInt(14))

C15_Witness ==
    /\ Succeeded
    /\ text = "1+2*3"
    /\ Len(reduced) = 6
    /\ reduced[4].rule = "times"
    /\ reduced[5].rule = "plus"
    /\ reduced[5].before = <<"2*3=6">>
    /\ result.trace = <<"2*3=6", "1+6=7">>

----------------------------------------------------------------------------
(* The roll command                                                        *)

\* the messages a command has passed to ctx.send, delivered or not
MessagesOf(cmd) ==
    LET Own(m) == m.command = cmd IN SelectSeq(sent \o outbox, Own)

\* its handler has passed parse()
Answered(cmd) == invoked[cmd].status \in {"awaiting", "returned"}

\* an embed with the given value and trace lines, as the channel shows it
Shows(number, lines) ==
    "**Result:**\n" \o Fence \o "\n" \o number \o "\n" \o Fence
    \o "\n**Steps:**\n" \o Fence \o "\n" \o lines \o Fence

\* C16: when parse succeeds the roll command sends exactly one message, an
\* embed: the value, written as an integer exactly when the float result has
\* no fractional part and as a real number otherwise, then every entry of
\* the returned trace, one per line, in trace order.
C16_ResultMessage ==
    \A cmd \in DOMAIN invoked :
        LET h == invoked[cmd]
            value == h.result.value
        IN  /\ h.status = "running" => MessagesOf(cmd) = <<>>
            /\ (Answered(cmd) /\ h.result.kind = "pair") =>
                /\ Len(MessagesOf(cmd)) = 1
                /\ MessagesOf(cmd)[1].content = "None"
                /\ MessagesOf(cmd)[1].embed =
                       Shows(IF value.d = 1 THEN ToString(value.n)
                             ELSE str(value),
                             Steps(h.result.trace))
                /\ h.dice = "2@+3" =>
                       MessagesOf(cmd)[1].embed = Shows("5", "2+3=5\n")
                /\ h.dice = "(1+2)*3" =>
                       MessagesOf(cmd)[1].embed = Shows("9", "1+2=3\n3*3=9\n")
                /\ h.dice = "1/2/2" =>
                       MessagesOf(cmd)[1].embed
                           = Shows("0.25", "1/2=0.5\n0.5/2=0.25\n")
                /\ h.dice = "7/2" =>
                       MessagesOf(cmd)[1].embed = Shows("3.5", "7/2=3.5\n")

C16_Witness ==
    /\ "roll" \in DOMAIN invoked
    /\ "r" \in DOMAIN invoked
    /\ invoked["roll"].dice = "1/2/2"
    /\ invoked["r"].dice = "(1+2)*3"
    /\ invoked["roll"].status = "returned"
    /\ invoked["r"].status = "returned"
    /\ Len(sent) = 2
    /\ sent[1].embed = Shows("9", "1+2=3\n3*3=9\n")
    /\ sent[2].embed = Shows("0.25", "1/2=0.5\n0.5/2=0.25\n")

\* C17: when a non-empty text fails to parse, roll, and r alike, send
\* exactly one message, the plain retry text and no embed, and the handler
\* returns without an exception.
C17_SyntaxFailureMessage ==
    \A cmd \in DOMAIN invoked :
        LET h == invoked[cmd] IN
        /\ (h.dice \in {"(1", "-1*"} /\ h.status # "running") =>
                h.result.kind = "None"
        /\ h.result.kind = "None" =>
            /\ h.dice # ""
            /\ Answered(cmd)
            /\ MessagesOf(cmd) =
                   <<[command |-> cmd,
                      content |-> "There was an error with your roll syntax. "
                                  \o "Please try again.",
                      embed |-> "None"]>>

C17_Witness ==
    /\ "roll" \in DOMAIN invoked
    /\ "r" \in DOMAIN invoked
    /\ invoked["roll"].dice = "(1"
    /\ invoked["r"].dice = "-1*"
    /\ invoked["roll"].result.kind = "None"
    /\ invoked["r"].result.kind = "None"
    /\ invoked["roll"].status = "returned"
    /\ invoked["r"].status = "returned"
    /\ Len(sent) = 2
    /\ sent[1].content = SyntaxErrorMessage
    /\ sent[2].content = SyntaxErrorMessage

\* C18: no parser is shared by two commands: every handler evaluates on a
\* parser of its own, whose log starts empty, so however the commands and
\* the deliveries of their messages interleave, the trace a command sends
\* holds the entries of its own text and nothing else.
C18_OwnParser ==
    /\ command # "" => (start_log = <<>> /\ evaluations = 1)
    /\ \A cmd \in DOMAIN invoked :
        LET h == invoked[cmd] IN
        (Answered(cmd) /\ h.result.kind = "pair") =>
            /\ h.result.trace = h.appended
            /\ Len(MessagesOf(cmd)) = 1
            /\ MessagesOf(cmd)[1].embed
                   = Description(h.appended, h.result.value)
            /\ h.dice = "1+2" =>
                   MessagesOf(cmd)[1].embed = Shows("3", "1+2=3\n")

C18_Witness ==
    /\ "roll" \in DOMAIN invoked
    /\ "r" \in DOMAIN invoked
    /\ invoked["roll"].dice = "-1*"
    /\ invoked["roll"].appended = <<"-(1)=-1">>
    /\ invoked["r"].dice = "1+2"
    /\ outbox = <<>>
    /\ Len(sent) = 2
    /\ sent[1] = [command |-> "r", content |-> "None",
                  embed |-> Shows("3", "1+2=3\n")]
    /\ sent[2].command = "roll"

----------------------------------------------------------------------------
(* The operands of a roll                                                  *)

\* the least integer that is not below the number v
Ceiling(v) ==
    CHOOSE c \in -(Abs(v.n) + 1) .. Abs(v.n) + 1 :
        c * v.d >= v.n /\ (c - 1) * v.d < v.n

\* the entries of a roll that begin with `prefix`
Beginning(entries, prefix) ==
    {k \in DOMAIN entries : StartsWith(entries[k], prefix)}

\* C19: when the count of a roll rounds up to a negative c, |c| dice are
\* drawn, the roll entry shows |c| and the un-negated total T, the entry
\* "-(T)=-T" follows it immediately and the roll is worth -T; when c >= 0,
\* c dice are drawn, no negation entry is logged and the roll is worth T.
C19_NegativeCount ==
    /\ \A i \in DOMAIN rolls :
        LET it == rolls[i]
            c == Ceiling(it.expr0)
            total == Sum(it.die_values)
            last == Len(it.entries)
            shown(n) == ToString(n) \o "d" \o ToString(Ceiling(it.expr1))
                        \o "=" \o ToString(total)
        IN  /\ c < 0 =>
                /\ Len(it.die_values) = -c
                /\ last >= 2
                /\ StartsWith(it.entries[last - 1], shown(-c))
                /\ it.entries[last]
                       = "-(" \o ToString(total) \o ")=" \o ToString(-total)
                /\ it.returned = -total
            /\ c >= 0 =>
                /\ Len(it.die_values) = c
                /\ StartsWith(it.entries[last], shown(c))
                /\ Beginning(it.entries, "-(") = {}
                /\ it.returned = total
            /\ \E k \in DOMAIN reduced :
                /\ reduced[k].rule = "roll"
                /\ reduced[k].entries = it.entries
                /\ reduced[k].value = PyInt(it.returned)
                /\ reduced[k].after = reduced[k].before \o it.entries
    /\ (Succeeded /\ text = "(1/2-2)d2") =>
        /\ Len(rolls) = 1
        /\ LET total == rolls[1].roll_total IN
           /\ appended = <<"1/2=0.5", "0.5-2=-1.5", "ceil(-1.5)=-1",
                           "1d2=" \o ToString(total) \o "(" \o DieGlyph
                               \o ToString(total) \o ")",
                           "-(" \o ToString(total) \o ")=-" \o ToString(total)>>
           /\ result.value = float(PyInt(-total))

C19_Witness ==
    /\ Succeeded
    /\ text = "(1-2)d-2"
    /\ Len(rolls) = 1
    /\ rolls[1].expr0 = PyInt(-1)
    /\ rolls[1].die_values = <<-2>>
    /\ result.trace = <<"1-2=-1", "-(2)=-2", "1d-2=-2(" \o DieGlyph \o "-2)",
                        "-(-2)=2">>
    /\ result.value = float(PyInt(2))

\* the ceil entry an operand is due: one if its value is no whole number
CeilEntry(v) ==
    IF v.n % v.d # 0
    THEN <<"ceil(" \o str(v) \o ")=" \o ToString(Ceiling(v))>>
    ELSE <<>>

\* C20: the count of a roll is the ceiling of its left operand and the
\* sides the ceiling of its right operand; a "ceil(x)=n" entry is logged for
\* an operand exactly when its value is no whole number (none for a float
\* such as 4/2), the left one first, and both before the roll entry.
C20_CeilOperands ==
    /\ \A i \in DOMAIN rolls :
        LET it == rolls[i]
            ceils == CeilEntry(it.expr0) \o CeilEntry(it.expr1)
        IN  /\ it.number_of_dice = Abs(Ceiling(it.expr0))
            /\ it.invert_result <=> Ceiling(it.expr0) < 0
            /\ it.die_max_value = Ceiling(it.expr1)
            /\ Len(it.die_values) = Abs(Ceiling(it.expr0))
            /\ SubSeq(it.entries, 1, Len(ceils) + 1)
                   = ceils \o <<it.step_string>>
            /\ Cardinality(Beginning(it.entries, "ceil(")) = Len(ceils)
    /\ (Succeeded /\ text = "(4/2)d1") =>
        appended = <<"4/2=2.0", "2d1=2(" \o DieGlyph \o "1 " \o DieGlyph
                                  \o "1)">>
    /\ (Succeeded /\ text = "(1/2)d(3/2)") =>
        /\ Len(appended) = 5
        /\ SubSeq(appended, 1, 4)
               = <<"1/2=0.5", "3/2=1.5", "ceil(0.5)=1", "ceil(1.5)=2">>
        /\ appended[5] = rolls[1].step_string
        /\ StartsWith(appended[5], "1d2=")

C20_Witness ==
    /\ Succeeded
    /\ text = "(1/2)d(3/2)"
    /\ Len(rolls) = 1
    /\ rolls[1].expr0 = PyFloat(1, 2, FALSE)
    /\ rolls[1].expr1 = PyFloat(3, 2, FALSE)
    /\ rolls[1].die_values = <<2>>
    /\ result.trace = <<"1/2=0.5", "3/2=1.5", "ceil(0.5)=1", "ceil(1.5)=2",
                        "1d2=2(" \o DieGlyph \o "2)">>

----------------------------------------------------------------------------
(* Entries, tokens, snapshots, termination, order, draws                   *)

\* the sign of an arithmetic rule
SignOf(rule) ==
    CASE rule = "plus" -> "+"
      [] rule = "minus" -> "-"
      [] rule = "times" -> "*"
      [] rule = "divide" -> "/"

\* C21: every reduction of +, -, * or / appends exactly one entry
\* "<left><op><right>=<result>" made of the values of its operands and of
\* the arithmetic result, every reduction of unary minus appends exactly one
\* entry "-(<operand>)=<result>" with result = -operand, and they append
\* nothing else.
C21_ArithmeticEntries ==
    /\ \A i \in DOMAIN reduced :
        LET it == reduced[i] IN
        /\ it.rule \in {"plus", "minus", "times", "divide"} =>
            /\ it.value = Apply(SignOf(it.rule), it.args[1], it.args[3])
            /\ it.entries = <<str(it.args[1]) \o SignOf(it.rule)
                               \o str(it.args[3]) \o "=" \o str(it.value)>>
            /\ it.after = Append(it.before, it.entries[1])
        /\ it.rule = "unary_minus" =>
            /\ it.value.n = -it.args[2].n
            /\ it.value.d = it.args[2].d
            /\ it.entries = <<"-(" \o str(it.args[2]) \o ")="
                               \o str(it.value)>>
            /\ it.after = Append(it.before, it.entries[1])
    /\ (Succeeded /\ text = "2+3") => appended = <<"2+3=5">>
    /\ (Succeeded /\ text = "2-1-1") => appended = <<"2-1=1", "1-1=0">>
    /\ (Succeeded /\ text = "(1+2)*3") => appended = <<"1+2=3", "3*3=9">>
    /\ (Succeeded /\ text = "1/2/2") => appended = <<"1/2=0.5", "0.5/2=0.25">>
    /\ (Succeeded /\ text = "-1*2") => appended = <<"-(1)=-1", "-1*2=-2">>
    /\ (Succeeded /\ text = "-1/2") => appended = <<"-(1)=-1", "-1/2=-0.5">>

C21_Witness ==
    /\ Succeeded
    /\ text = "-1/2"
    /\ Len(reduced) = 5
    /\ reduced[2].rule = "unary_minus"
    /\ reduced[2].entries = <<"-(1)=-1">>
    /\ reduced[4].rule = "divide"
    /\ reduced[4].entries = <<"-1/2=-0.5">>
    /\ result.trace = <<"-(1)=-1", "-1/2=-0.5">>

\* the places of a text where a token starts: a symbol, or the first digit
\* of a run of digits
TokenStarts(s) ==
    {i \in 1 .. Len(s) :
        \/ CharAt(s, i) \in {"+", "-", "*", "/", "(", ")", "d"}
        \/ /\ CharAt(s, i) \in Digit
           /\ (i = 1 \/ CharAt(s, i - 1) \notin Digit)}

\* the k-th of them
NthStart(s, k) ==
    CHOOSE i \in TokenStarts(s) :
        Cardinality({j \in TokenStarts(s) : j <= i}) = k

\* the digits from place i up to the first character that is no digit
DigitRun(s, i) ==
    LET stop == CHOOSE e \in i .. Len(s) :
                    /\ \A j \in i .. e : CharAt(s, j) \in Digit
                    /\ (e = Len(s) \/ CharAt(s, e + 1) \notin Digit)
    IN  SubSeq(s, i, stop)

\* C22: the tokenizer emits nothing for spaces, tabs, newlines and
\* unrecognized characters (an upper-case "D" is one), one NUMBER token per
\* maximal run of digits, and one token for each + - * / ( ) and lower-case
\* "d", in the order of the text.
C22_Tokens ==
    LET toks == tokenize(text, 1) IN
    /\ Len(toks) = Cardinality(TokenStarts(text))
    /\ \A k \in DOMAIN toks :
        LET i == NthStart(text, k)
            c == CharAt(text, i)
        IN  /\ c \in Digit =>
                toks[k] = [type |-> "NUMBER", value |-> DigitRun(text, i)]
            /\ c = "+" => toks[k] = [type |-> "PLUS", value |-> "+"]
            /\ c = "-" => toks[k] = [type |-> "MINUS", value |-> "-"]
            /\ c = "*" => toks[k] = [type |-> "TIMES", value |-> "*"]
            /\ c = "/" => toks[k] = [type |-> "DIVIDE", value |-> "/"]
            /\ c = "(" => toks[k] = [type |-> "LEFT_PARENTHESES", value |-> "("]
            /\ c = ")" => toks[k] = [type |-> "RIGHT_PARENTHESES", value |-> ")"]
            /\ c = "d" => toks[k] = [type |-> "DIE_ROLL", value |-> "d"]
    /\ text = "1D1" => TokenTypes(text) = <<"NUMBER", "NUMBER">>
    /\ text = "3 3 3" => TokenTypes(text) = <<"NUMBER", "NUMBER", "NUMBER">>
    /\ text = "1\t+\n1" => TokenTypes(text) = <<"NUMBER", "PLUS", "NUMBER">>
    /\ text = "101" => toks = <<[type |-> "NUMBER", value |-> "101"]>>
    /\ text = "1d1" => TokenTypes(text) = <<"NUMBER", "DIE_ROLL", "NUMBER">>

C22_Witness ==
    /\ text = "1D1"
    /\ pc = "returned"
    /\ tokenize(text, 1) = <<[type |-> "NUMBER", value |-> "1"],
                             [type |-> "NUMBER", value |-> "1"]>>
    /\ rolls = <<>>

\* C23: the list an evaluation returned is a snapshot: whatever the later
\* evaluations on the same parser do, successful or failed, every list
\* returned so far holds exactly what it held when it was returned.
C23_Snapshot ==
    /\ \A i \in DOMAIN handed : lists[handed[i].list] = handed[i].trace
    /\ \A i \in DOMAIN handed : handed[i].list # log_id
    /\ Succeeded =>
        (handed # <<>> /\ result.trace = lists[Last(handed).list])

C23_Witness ==
    /\ evaluations = 2
    /\ SyntaxFailure
    /\ text = "(1"
    /\ Len(handed) = 1
    /\ handed[1].trace = <<"3+4=7", "2*7=14">>
    /\ lists[handed[1].list] = <<"3+4=7", "2*7=14">>

\* the number of reductions that built the operand whose last reduction is
\* red[i]: the reductions of a call are the post-order of its parse trees
RECURSIVE TreeSize(_, _)
TreeSize(red, i) ==
    IF i < 1 THEN 0
    ELSE IF red[i].rule = "number" THEN 1
    ELSE IF red[i].rule \in {"unary_minus", "parentheses", "statement"}
    THEN 1 + TreeSize(red, i - 1)
    ELSE LET right == TreeSize(red, i - 1) IN
         1 + right + TreeSize(red, i - 1 - right)

\* the reductions red[i - TreeSize(red, i) + 1 .. i] of an operand
TreeOf(red, i) == SubSeq(red, i - TreeSize(red, i) + 1, i)

\* C25: evaluation is left to right: when a binary production is reduced,
\* the reductions of its left operand come first, those of its right
\* operand follow, and the log holds the entries of the left operand, then
\* those of the right operand, then its own; "(1+2)*(3+4)" logs "1+2=3",
\* "3+4=7", "3*7=21", and in "1d2+2d1" the roll 1d2 draws before 2d1.
C25_LeftToRight ==
    /\ \A i \in DOMAIN reduced :
        LET it == reduced[i]
            right == i - 1
            left == right - TreeSize(reduced, right)
            first == left - TreeSize(reduced, left) + 1
        IN  it.rule \in {"roll", "plus", "minus", "times", "divide"} =>
                /\ 1 <= first /\ first <= left /\ left < right
                /\ reduced[left].value = it.args[1]
                /\ reduced[right].value = it.args[3]
                /\ it.after = reduced[first].before
                              \o Entries(TreeOf(reduced, left))
                              \o Entries(TreeOf(reduced, right))
                              \o it.entries
    /\ (Succeeded /\ text = "(1+2)*(3+4)") =>
        result.trace = <<"1+2=3", "3+4=7", "3*7=21">>
    /\ (text = "1d2+2d1" /\ Len(rolls) >= 1) =>
        /\ rolls[1].number_of_dice = 1 /\ rolls[1].die_max_value = 2
        /\ Len(rolls) = 2 =>
            /\ rolls[2].number_of_dice = 2 /\ rolls[2].die_max_value = 1
            /\ IsPrefix(rolls[1].entries \o rolls[2].entries, appended)

C25_Witness ==
    /\ Succeeded
    /\ text = "(1+2)*(3+4)"
    /\ evaluations = 1
    /\ \E i \in DOMAIN reduced :
        /\ reduced[i].rule = "times"
        /\ TreeSize(reduced, i - 1) = 4
        /\ Entries(TreeOf(reduced, i - 1 - 4)) = <<"1+2=3">>
        /\ Entries(TreeOf(reduced, i - 1)) = <<"3+4=7">>
    /\ result.trace = <<"1+2=3", "3+4=7", "3*7=21">>

\* the draws a sequence of rolls asks for: |count| per roll whose sides are
\* not zero
RECURSIVE DrawsOf(_)
DrawsOf(rs) ==
    IF rs = <<>> THEN 0
    ELSE (IF Ceiling(Head(rs).expr1) # 0
          THEN Abs(Ceiling(Head(rs).expr0)) ELSE 0)
         + DrawsOf(Tail(rs))

\* C26: only the roll production draws random numbers, once per die with
\* non-zero sides: the draws of an evaluation are the sum, over its rolls,
\* of |count| where sides # 0 and of nothing where sides = 0 or count = 0,
\* and every roll has |count| outcomes, all zero for a d0.
C26_Draws ==
    /\ draws = DrawsOf(rolls)
    /\ \A i \in DOMAIN rolls :
        LET it == rolls[i] IN
        /\ Len(it.die_values) = Abs(Ceiling(it.expr0))
        /\ Ceiling(it.expr1) = 0 =>
            \A k \in DOMAIN it.die_values : it.die_values[k] = 0
    /\ rolls = <<>> => draws = 0

C26_Witness ==
    /\ Succeeded
    /\ text = "1d2d0"
    /\ Len(rolls) = 2
    /\ rolls[2].number_of_dice = 2
    /\ rolls[2].die_max_value = 0
    /\ appended # <<>>
    /\ draws = 1

\* the bounds of a die as the specification names them
MaxBound(sides) == IF sides > 0 THEN sides ELSE -1
MinBound(sides) == IF sides > 0 THEN 1 ELSE sides

\* C30: in every roll with sides # 0 the critical-success count is the
\* number of outcomes equal to the max bound (sides when sides > 0, -1 when
\* sides < 0) and the critical-failure count is the number of outcomes equal
\* to the min bound (1 when sides > 0, sides when sides < 0), also when
\* sides = 1 and the two bounds coincide.
C30_CritCounts ==
    \A i \in DOMAIN rolls :
        LET it == rolls[i] IN
        it.die_max_value # 0 =>
            /\ it.crit_success_count =
                   Count(it.die_values, MaxBound(it.die_max_value))
            /\ it.crit_fail_count =
                   Count(it.die_values, MinBound(it.die_max_value))

----------------------------------------------------------------------------
(* The cookie hunt                                                         *)

\* the gimmes that take a step
Stepping == {g \in DOMAIN gimmes' : g \notin DOMAIN gimmes \/ gimmes'[g] # gimmes[g]}

\* C27: a dropped cookie is awarded at most once, however the gimme
\* commands interleave: no two gimmes claim the same drop, a gimme that
\* claims none replies that no cookie is available, and no step of such a
\* gimme changes a cookie count or the state of the drop; the counts are
\* changed by the steps of claiming gimmes alone.
C27_AwardedOnce ==
    /\ [](\A g \in DOMAIN gimmes :
            /\ gimmes[g].drop \in 0 .. drops
            /\ gimmes[g].drop = 0 <=> gimmes[g].reply = NoCookieMessage
            /\ \A h \in DOMAIN gimmes :
                (g # h /\ gimmes[g].drop # 0) =>
                    gimmes[g].drop # gimmes[h].drop)
    /\ [][/\ \A g \in Stepping :
               gimmes'[g].drop = 0 =>
                   UNCHANGED <<drop_vars, CookieTable, UserTable, drops>>
          /\ CookieTable' # CookieTable =>
               \E g \in Stepping : gimmes'[g].drop # 0]_vars

\* two gimmes are in flight for the one cookie dropped: the first claimed it
\* and is suspended in its send, the second was told there is none
C27_Witness ==
    /\ drops = 1
    /\ Len(gimmes) = 2
    /\ gimmes[1].drop = 1
    /\ gimmes[1].pos \in {"got", "announce", "roles"}
    /\ gimmes[2].drop = 0
    /\ gimmes[2].reply = NoCookieMessage
    /\ ~cookie_available
    /\ \E u \in DOMAIN CookieTable : CookieTable[u] > 0

\* C28: whenever a cookie is available its type, the time it was prepared
\* and both delays are set; _check_to_send_cookie, run by the loop or
\* forced, sends a drop message only when no cookie is available, and a run
\* that finds no valid channel leaves cookie_available False.
C28_DropState ==
    /\ [](/\ cookie_available =>
               /\ cookie_type # None
               /\ cookie_prepared_timestamp # None
               /\ cookie_drop_delay_hours # None
               /\ cookie_drop_delay_minutes # None
          /\ last_check.outcome = "no_channel" => ~cookie_available)
    /\ [][/\ drops' # drops =>
               (~cookie_available /\ cookie_available'
                /\ last_check'.outcome = "sent")
          /\ (cookie_available' /\ ~cookie_available) => drops' = drops + 1
         ]_vars

\* a cookie is out, and a forced run of the check has sent nothing
C28_Witness ==
    /\ cookie_available
    /\ cookie_type # None
    /\ cookie_drop_delay_minutes = Some(59)
    /\ drops = 2
    /\ last_check = [force_drop |-> TRUE, outcome |-> "none"]

----------------------------------------------------------------------------
(* The sessions of the data layer                                          *)

\* the commits, rollbacks and closes of a session, in order
Managed(log) ==
    LET Managing(e) == e.op # "call"
        kept == SelectSeq(log, Managing)
    IN  [i \in DOMAIN kept |-> kept[i].op]

\* C29: when DatabaseMethod calls are nested, each passing its session on,
\* only the outermost call, which made the session, commits, rolls back or
\* closes it: nothing of the kind is done while a call is inside another;
\* a call that returns has committed once and then closed once; a call in
\* which a method raised, at any depth, has not committed, has rolled back
\* once and closed once, and the exception reaches the caller.
C29_OutermostManages ==
    /\ \A s \in DOMAIN sessions : \A e \in DOMAIN sessions[s] :
        sessions[s][e].op # "call" => sessions[s][e].depth = 1
    /\ Len(sessions) = Len(finished) + (IF frames = <<>> THEN 0 ELSE 1)
    /\ frames # <<>> =>
        /\ ~frames[1].external_session
        /\ frames[1].session = Len(sessions)
        /\ \A d \in 2 .. Len(frames) :
            /\ frames[d].external_session
            /\ frames[d].session = frames[1].session
        /\ Managed(sessions[frames[1].session]) = <<>>
    /\ \A i \in DOMAIN finished :
        LET call == finished[i]
            ops == Managed(sessions[call.session])
        IN  /\ call.session = i
            /\ call.outcome = "returned" =>
                (ops = <<"commit", "close">> /\ call.raised_at = 0)
            /\ call.raised_at # 0 =>
                /\ call.outcome = "raised"
                /\ call.exception = "method"
                /\ ops = <<"rollback", "close">>

\* one call returned after calls inside it, another had a method raise two
\* calls below it
C29_Witness ==
    /\ frames = <<>>
    /\ \E i \in DOMAIN finished, j \in DOMAIN finished :
        /\ finished[i].outcome = "returned"
        /\ finished[i].nested >= 2
        /\ Managed(sessions[i]) = <<"commit", "close">>
        /\ finished[j].outcome = "raised"
        /\ finished[j].raised_at = 3
        /\ Managed(sessions[j]) = <<"rollback", "close">>

\* C24: every call of parse() comes to an end, and its end is either a
\* (trace, value) pair or the syntax-error signal.
C24_Terminates ==
    \A k \in 1 .. MaxEvaluations :
        (Parsing /\ evaluations = k)
            ~> (evaluations = k /\ (Succeeded \/ SyntaxFailure))

====
